---------------------------- MODULE Spec2Model ----------------------------
(***************************************************************************)
(* Multi-objective path search over a weighted graph: the cost model of    *)
(* NetworkGenerator, the _repair_path functions of the genetic algorithm,  *)
(* particle swarm, simulated annealing and tabu search, and the optimize() *)
(* loops of tabu search, ant colony optimization and simulated annealing.  *)
(*                                                                         *)
(* Numbers.  Python floats are modelled in fixed point: a finite value is  *)
(* an integer count of 1/Scale units; +inf and nan are separate values,    *)
(* with the IEEE rules the code relies on (0 * inf = nan, nan compares     *)
(* false).  A reliability is the rational num/den with den a power of two, *)
(* so that products are exact and -log(1/2^k) = k * ln 2.                  *)
(***************************************************************************)
EXTENDS Integers, Sequences, FiniteSets, TLC

VARIABLES
    graph,              \* the nx.Graph: nodes, edges and their attributes
    sp,                 \* nx.shortest_path(graph, u, v) for every pair; <<>> = NetworkXNoPath
    source,             \* self.source
    destination,        \* self.destination
    weights,            \* self.weights
    network_generator,  \* TRUE once set_network_generator was called, FALSE = None
    pc,                 \* position of the running call
    path,               \* the path argument of the call under study
    result,             \* the value the call returned
    alg,                \* the optimizer whose optimize() runs
    params,             \* its constructor parameters
    iteration,          \* the outer loop variable of optimize()
    inner,              \* how often the inner loop of this iteration has run
    current_path, current_cost,
    best_path, best_cost,
    tabu_list,          \* TabuSearch.tabu_list: path -> iteration until which it is tabu
    neighbor, neighbor_cost, is_tabu,            \* the candidate examined last
    best_neighbor_path, best_neighbor_cost,
    pheromone,          \* AntColonyOptimization.pheromone: directed edge -> level
    paths, costs,       \* what the ants of this iteration found
    temperature,        \* the temperature of simulated annealing
    population,         \* the population of the genetic algorithm
    new_population,     \* the next population while it is being filled
    attempts,           \* attempts made by _initialize_population
    best_fitness,       \* the best fitness the genetic algorithm has seen
    personal_best_positions, personal_best_costs,   \* one per particle of the swarm
    global_best_position, global_best_cost,
    history,            \* the statistics optimize() returns: records per list
    calls,              \* optimize() calls this instance has finished
    other               \* a second instance over the same graph, while it waits

envVars == <<graph, sp, source, destination, weights, network_generator>>
runVars == <<alg, params, iteration, inner, current_path, current_cost,
             best_path, best_cost, history>>
tabuVars == <<tabu_list, neighbor, neighbor_cost, is_tabu,
              best_neighbor_path, best_neighbor_cost>>
acoVars == <<pheromone, paths, costs>>
saVars == <<temperature>>
gaVars == <<population, new_population, attempts, best_fitness>>
psoVars == <<personal_best_positions, personal_best_costs,
             global_best_position, global_best_cost>>
sessionVars == <<calls, other>>
optVars == <<runVars, tabuVars, acoVars, saVars, gaVars, psoVars, sessionVars>>
vars == <<envVars, pc, path, result, optVars>>

-----------------------------------------------------------------------------
(* Bounds of the model *)

MaxLen == 4         \* longest node sequence handed to a function
MaxWeight == 1      \* objective weights range over 0..MaxWeight
MaxIterations == 2  \* num_iterations of the optimizers compared side by side
MaxInner == 2       \* passes of an optimizer's inner loop per iteration
MaxPopulation == 2  \* population_size of the genetic algorithm
MaxWork == 4        \* individuals bred, or particles moved, in one run
MaxCalls == 1       \* optimize() calls on one instance after the first
LongRun == 12       \* num_iterations of the long tabu search run

-----------------------------------------------------------------------------
(* Floats *)

Scale == 2^10
Ln2 == (Scale * 6931) \div 10000     \* ln 2 in 1/Scale units

Fin(n) == [kind |-> "fin", v |-> n]
Inf == [kind |-> "inf", v |-> 0]
NaN == [kind |-> "nan", v |-> 0]
IsFin(x) == x.kind = "fin"

\* x + y on floats that are never -inf
FAdd(x, y) ==
    IF x.kind = "nan" \/ y.kind = "nan" THEN NaN
    ELSE IF x.kind = "inf" \/ y.kind = "inf" THEN Inf
    ELSE Fin(x.v + y.v)

\* w * x for a weight w >= 0 (a plain number) and a float x >= 0
FMul(w, x) ==
    IF x.kind = "nan" THEN NaN
    ELSE IF x.kind = "inf" THEN (IF w = 0 THEN NaN ELSE Inf)
    ELSE Fin(w * x.v)

\* x < y on floats: every comparison with nan is False
FLt(x, y) ==
    /\ x.kind # "nan" /\ y.kind # "nan"
    /\ x.kind = "fin"
    /\ (y.kind = "inf" \/ x.v < y.v)

\* x == float('inf')
FIsInf(x) == x.kind = "inf"

\* reliabilities: num/den, den a power of two; 0.0 is 0/1
Rel(n, d) == [num |-> n, den |-> d]
RelOne == Rel(1, 1)
RelHalf == Rel(1, 2)
RelZero == Rel(0, 1)
RelMul(a, b) == Rel(a.num * b.num, a.den * b.den)

RECURSIVE Log2(_)
Log2(d) == IF d <= 1 THEN 0 ELSE 1 + Log2(d \div 2)

\* -math.log(r) for r > 0
NegLog(r) == Fin(Log2(r.den) * Ln2)

-----------------------------------------------------------------------------
(* Graphs *)

Nodes == 0..3
Edge(u, v) == {u, v}

EdgesT == {Edge(0, 1), Edge(1, 2), Edge(1, 3)}
EdgesSquare == {Edge(0, 1), Edge(1, 3), Edge(0, 2), Edge(2, 3)}
EdgesSplit == {Edge(0, 1), Edge(2, 3)}
EdgesKite == {Edge(0, 3), Edge(0, 1), Edge(1, 3), Edge(1, 2)}

Lo(e) == CHOOSE u \in e : \A v \in e : u <= v
Hi(e) == CHOOSE u \in e : \A v \in e : v <= u

\* every attribute the same everywhere, every reliability 1.0
UniformGraph(E) ==
    [nodes |-> Nodes, edges |-> E,
     processing_delay |-> [n \in Nodes |-> Scale],
     node_reliability |-> [n \in Nodes |-> RelOne],
     delay |-> [e \in E |-> Scale],
     edge_reliability |-> [e \in E |-> RelOne],
     bandwidth |-> [e \in E |-> 1000]]

\* attributes that differ from node to node and from edge to edge
VariedGraph(E) ==
    [nodes |-> Nodes, edges |-> E,
     processing_delay |-> [n \in Nodes |-> (n + 1) * Scale],
     node_reliability |-> [n \in Nodes |-> IF n = 1 THEN RelHalf ELSE RelOne],
     delay |-> [e \in E |-> (3 * Lo(e) + Hi(e)) * Scale],
     edge_reliability |-> [e \in E |-> IF Hi(e) = 3 THEN RelHalf ELSE RelOne],
     bandwidth |-> [e \in E |-> IF Lo(e) = 0 THEN 250 ELSE 500]]

\* no delay anywhere: only the bandwidth term can be positive
ZeroDelayGraph(E) ==
    [nodes |-> Nodes, edges |-> E,
     processing_delay |-> [n \in Nodes |-> 0],
     node_reliability |-> [n \in Nodes |-> RelOne],
     delay |-> [e \in E |-> 0],
     edge_reliability |-> [e \in E |-> RelOne],
     bandwidth |-> [e \in E |-> 1000]]

\* uniform but for a tenfold delay on the direct edge 0-3
SlowDirectGraph(E) ==
    [nodes |-> Nodes, edges |-> E,
     processing_delay |-> [n \in Nodes |-> Scale],
     node_reliability |-> [n \in Nodes |-> RelOne],
     delay |-> [e \in E |-> IF e = Edge(0, 3) THEN 10 * Scale ELSE Scale],
     edge_reliability |-> [e \in E |-> RelOne],
     bandwidth |-> [e \in E |-> 1000]]

has_edge(g, u, v) == u # v /\ Edge(u, v) \in g.edges
neighbors(g, u) == {v \in g.nodes : has_edge(g, u, v)}

-----------------------------------------------------------------------------
(* Cost model: NetworkGenerator.get_path_metrics, calculate_total_cost *)

InvalidMetrics == [total_delay |-> Inf, total_reliability |-> RelZero, resource_cost |-> Inf]

\* the resource cost of an edge with the bandwidth left out: 1.0 per hop
EdgeResourcePerHop(g, e) == Scale

\* "resource_cost += 1000.0 / bandwidth"
EdgeResource(g, e) == (1000 * Scale) \div g.bandwidth[e]

\* MetricsLoop with the processing delay of every node but the source added
RECURSIVE MetricsLoopCountingDestination(_, _, _, _, _, _)
MetricsLoopCountingDestination(g, p, i, total_delay, total_reliability, resource_cost) ==
    IF i > Len(p)
    THEN [total_delay |-> Fin(total_delay), total_reliability |-> total_reliability,
          resource_cost |-> Fin(resource_cost)]
    ELSE LET node == p[i]
             d1 == IF i > 1
                   THEN total_delay + g.processing_delay[node]
                   ELSE total_delay
             r1 == RelMul(total_reliability, g.node_reliability[node])
         IN IF i < Len(p)
            THEN IF has_edge(g, p[i], p[i + 1])
                 THEN LET e == Edge(p[i], p[i + 1])
                      IN MetricsLoopCountingDestination(g, p, i + 1,
                                     d1 + g.delay[e],
                                     RelMul(r1, g.edge_reliability[e]),
                                     resource_cost + EdgeResource(g, e))
                 ELSE InvalidMetrics
            ELSE MetricsLoopCountingDestination(g, p, i + 1, d1, r1, resource_cost)

\* the loop of get_path_metrics from index i on, with the running totals
RECURSIVE MetricsLoop(_, _, _, _, _, _)
MetricsLoop(g, p, i, total_delay, total_reliability, resource_cost) ==
    IF i > Len(p)
    THEN [total_delay |-> Fin(total_delay), total_reliability |-> total_reliability,
          resource_cost |-> Fin(resource_cost)]
    ELSE LET node == p[i]
             d1 == IF i > 1 /\ i < Len(p)
                   THEN total_delay + g.processing_delay[node]
                   ELSE total_delay
             r1 == RelMul(total_reliability, g.node_reliability[node])
         IN IF i < Len(p)
            THEN IF has_edge(g, p[i], p[i + 1])
                 THEN LET e == Edge(p[i], p[i + 1])
                      IN MetricsLoop(g, p, i + 1,
                                     d1 + g.delay[e],
                                     RelMul(r1, g.edge_reliability[e]),
                                     resource_cost + EdgeResource(g, e))
                 ELSE InvalidMetrics
            ELSE MetricsLoop(g, p, i + 1, d1, r1, resource_cost)

\* get_path_metrics without its guard on paths of fewer than two nodes
get_path_metrics_unguarded(g, p) == MetricsLoop(g, p, 1, 0, RelOne, 0)

get_path_metrics(g, p) ==
    IF Len(p) < 2 THEN InvalidMetrics
    ELSE MetricsLoop(g, p, 1, 0, RelOne, 0)

\* reliability_cost with "0 < total_reliability < 1" for its test
reliability_cost_below_one(metrics) ==
    IF metrics.total_reliability.num > 0
       /\ metrics.total_reliability.num < metrics.total_reliability.den
    THEN NegLog(metrics.total_reliability)
    ELSE Inf

\* "if metrics['total_reliability'] > 0: reliability_cost = -math.log(...)"
reliability_cost(metrics) ==
    IF metrics.total_reliability.num > 0
    THEN NegLog(metrics.total_reliability)
    ELSE Inf

\* 1 - r, the reliability cost of the other cost-model variant
OneMinus(r) == Fin(Scale - (r.num * Scale) \div r.den)

\* calculate_total_cost with reliability_cost = 1 - total_reliability
calculate_total_cost_one_minus(g, p, w) ==
    LET metrics == get_path_metrics(g, p)
        rc == IF metrics.total_reliability.num > 0
              THEN OneMinus(metrics.total_reliability) ELSE Inf
    IN FAdd(FAdd(FMul(w.delay, metrics.total_delay), FMul(w.reliability, rc)),
            FMul(w.resource, metrics.resource_cost))

calculate_total_cost(g, p, w) ==
    LET metrics == get_path_metrics(g, p)
    IN FAdd(FAdd(FMul(w.delay, metrics.total_delay),
                 FMul(w.reliability, reliability_cost(metrics))),
            FMul(w.resource, metrics.resource_cost))

-----------------------------------------------------------------------------
(* Inputs *)

SeqsUpTo(S, n) == UNION {[1..k -> S] : k \in 0..n}
WeightSets == [delay : 0..MaxWeight, reliability : 0..MaxWeight, resource : 0..MaxWeight]
CostGraphs == {UniformGraph(EdgesT), VariedGraph(EdgesT), VariedGraph(EdgesSquare),
               VariedGraph(EdgesKite), ZeroDelayGraph(EdgesSquare), VariedGraph(EdgesSplit)}

-----------------------------------------------------------------------------
(* The cost model on its own: one call of calculate_total_cost on any path *)

NoPath == <<>>
\* no second instance
NoInstance == [id |-> 0, state |-> <<>>]

\* the statistics dict: for every list it holds, how many records the list
\* has; {} before "history = {...}" and when optimize() returns early
NoHistory == <<>>
NewHistory(lists) == [k \in lists |-> 0]
\* one record appended to each of the lists
Appended(h, lists) == [k \in DOMAIN h |-> IF k \in lists THEN h[k] + 1 ELSE h[k]]

NoTable == [p \in {} |-> 0]
None == <<-2>>      \* Python None where a path is expected; no path holds -2

\* no optimizer is running
NoOptimizer ==
    /\ alg = "none"
    /\ params = [num_iterations |-> 0]
    /\ iteration = 0 /\ inner = 0
    /\ current_path = None /\ current_cost = Inf
    /\ best_path = None /\ best_cost = Inf
    /\ tabu_list = NoTable
    /\ neighbor = None /\ neighbor_cost = Inf /\ is_tabu = FALSE
    /\ best_neighbor_path = None /\ best_neighbor_cost = Inf
    /\ pheromone = NoTable /\ paths = <<>> /\ costs = <<>>
    /\ temperature = Fin(0)
    /\ population = <<>> /\ new_population = <<>> /\ attempts = 0
    /\ best_fitness = [kind |-> "zero", c |-> 0]
    /\ personal_best_positions = <<>> /\ personal_best_costs = <<>>
    /\ global_best_position = <<>> /\ global_best_cost = Inf
    /\ history = NoHistory
    /\ calls = 0 /\ other = NoInstance

InitCost ==
    /\ graph \in CostGraphs
    /\ weights \in WeightSets
    /\ path \in SeqsUpTo(Nodes, MaxLen)
    /\ sp = NoTable
    /\ source \in Nodes
    /\ destination \in Nodes \ {source}
    /\ network_generator = TRUE
    /\ pc = "call"
    /\ result = [metrics |-> InvalidMetrics, total_cost |-> Inf]
    /\ NoOptimizer

CostCall ==
    /\ pc = "call"
    /\ result' = [metrics |-> get_path_metrics(graph, path),
                  total_cost |-> calculate_total_cost(graph, path, weights)]
    /\ pc' = "return"
    /\ UNCHANGED <<envVars, path, optVars>>

NextCost == CostCall
SpecCost == InitCost /\ [][NextCost]_vars

-----------------------------------------------------------------------------
(* nx.shortest_path: fewest hops; which of several shortest paths is returned *)
(* depends on the adjacency order of the graph, here a priority among nodes  *)

\* the nodes within k hops of the set S
RECURSIVE Within(_, _, _)
Within(g, S, k) ==
    IF k = 0 THEN S
    ELSE Within(g, S \cup UNION {neighbors(g, u) : u \in S}, k - 1)

\* hops from u to v, -1 when v cannot be reached
Dist(g, u, v) ==
    LET n == Cardinality(g.nodes)
    IN IF v \notin Within(g, {u}, n) THEN -1
       ELSE CHOOSE k \in 0..n :
              v \in Within(g, {u}, k) /\ (k > 0 => v \notin Within(g, {u}, k - 1))

NodeOrders(S) == {f \in [1..Cardinality(S) -> S] : \A x \in S : \E i \in DOMAIN f : f[i] = x}
Rank(order, x) == CHOOSE i \in DOMAIN order : order[i] = x

RECURSIVE ShortestFrom(_, _, _, _)
ShortestFrom(g, order, u, v) ==
    IF u = v THEN <<u>>
    ELSE LET closer == {w \in neighbors(g, u) : Dist(g, w, v) = Dist(g, u, v) - 1}
             next == CHOOSE w \in closer : \A x \in closer : Rank(order, w) <= Rank(order, x)
         IN <<u>> \o ShortestFrom(g, order, next, v)

\* the table of nx.shortest_path(g, u, v); NoPath where it raises NetworkXNoPath
ShortestPathTable(g, order) ==
    [pr \in g.nodes \X g.nodes |->
        IF Dist(g, pr[1], pr[2]) = -1 THEN NoPath
        ELSE ShortestFrom(g, order, pr[1], pr[2])]

ShortestPathTables(g) == {ShortestPathTable(g, order) : order \in NodeOrders(g.nodes)}

\* nx.has_path
has_path(t, u, v) == t[<<u, v>>] # NoPath

-----------------------------------------------------------------------------
(* Path repair: the four _repair_path methods, on the instance's graph,     *)
(* shortest-path table, source and destination                              *)

\* the call raised NetworkXNoPath
Raised == <<-1>>

Last(p) == p[Len(p)]

\* steps "ensure source and destination" of GA, SA and tabu search
ForceEndpoints(p) ==
    LET q == IF p[1] # source THEN <<source>> \o p ELSE p
    IN IF Last(q) # destination THEN Append(q, destination) ELSE q

\* remove duplicates, keeping the first occurrence of every node
RECURSIVE Dedup(_, _)
Dedup(p, out) ==
    IF p = <<>> THEN out
    ELSE IF \E i \in 1..Len(out) : out[i] = Head(p)
         THEN Dedup(Tail(p), out)
         ELSE Dedup(Tail(p), Append(out, Head(p)))

\* tabu search's loop removal: on a node seen before, cut back to its first occurrence
RECURSIVE LoopRemoval(_, _)
LoopRemoval(p, clean_path) ==
    IF p = <<>> THEN clean_path
    ELSE IF \E i \in 1..Len(clean_path) : clean_path[i] = Head(p)
         THEN LET first_idx == CHOOSE i \in 1..Len(clean_path) : clean_path[i] = Head(p)
              IN LoopRemoval(Tail(p), SubSeq(clean_path, 1, first_idx))
         ELSE LoopRemoval(Tail(p), Append(clean_path, Head(p)))

\* GA_Connect that appends a non-adjacent node without bridging
RECURSIVE GA_ConnectNoBridge(_, _, _)
GA_ConnectNoBridge(repaired, i, fixed) ==
    IF i > Len(repaired) THEN fixed
    ELSE GA_ConnectNoBridge(repaired, i + 1, Append(fixed, repaired[i]))

\* GeneticAlgorithm._repair_path, "verify connectivity and fix if needed"
RECURSIVE GA_Connect(_, _, _)
GA_Connect(repaired, i, fixed) ==
    IF i > Len(repaired) THEN fixed
    ELSE IF ~has_edge(graph, Last(fixed), repaired[i])
         THEN LET bridge == sp[<<Last(fixed), repaired[i]>>]
              IN IF bridge # NoPath
                 THEN GA_Connect(repaired, i + 1, fixed \o Tail(bridge))
                 ELSE GA_Connect(repaired, i + 1, <<repaired[i]>>)
         ELSE GA_Connect(repaired, i + 1, Append(fixed, repaired[i]))

GA_repair_path(p) ==
    IF p = <<>>
    THEN (IF sp[<<source, destination>>] # NoPath
          THEN sp[<<source, destination>>] ELSE <<source, destination>>)
    ELSE LET repaired == Dedup(ForceEndpoints(p), <<>>)
             fixed == GA_Connect(repaired, 2, <<repaired[1]>>)
         IN IF Last(fixed) # destination
            THEN LET bridge == sp[<<Last(fixed), destination>>]
                 IN IF bridge # NoPath THEN fixed \o Tail(bridge)
                    ELSE IF sp[<<source, destination>>] # NoPath
                         THEN sp[<<source, destination>>] ELSE Raised
            ELSE fixed

\* the loop "ensure connectivity" shared by SimulatedAnnealing and ParticleSwarm
RECURSIVE SA_Connect(_, _, _)
SA_Connect(unique, i, repaired) ==
    IF i > Len(unique) THEN repaired
    ELSE LET current == Last(repaired)
             target == unique[i]
         IN IF current = target THEN SA_Connect(unique, i + 1, repaired)
            ELSE IF has_edge(graph, current, target)
                 THEN SA_Connect(unique, i + 1, Append(repaired, target))
                 ELSE LET bridge == sp[<<current, target>>]
                      IN IF bridge # NoPath
                         THEN SA_Connect(unique, i + 1, repaired \o Tail(bridge))
                         ELSE SA_Connect(unique, i + 1, repaired)

\* the global shortest path, or the pair [source, destination]
ShortestOrPair ==
    IF sp[<<source, destination>>] # NoPath
    THEN sp[<<source, destination>>] ELSE <<source, destination>>

\* "final check for destination" of SimulatedAnnealing and ParticleSwarm
SA_Finish(repaired) ==
    IF Last(repaired) # destination
    THEN LET bridge == sp[<<Last(repaired), destination>>]
         IN IF bridge # NoPath THEN repaired \o Tail(bridge) ELSE ShortestOrPair
    ELSE repaired

SA_repair_path(p) ==
    IF Len(p) < 2 THEN ShortestOrPair
    ELSE LET unique == Dedup(ForceEndpoints(p), <<>>)
         IN SA_Finish(SA_Connect(unique, 2, <<unique[1]>>))

PSO_repair_path(p) ==
    IF Len(p) < 2 THEN ShortestOrPair
    ELSE SA_Finish(SA_Connect(p, 2, <<p[1]>>))

\* TabuSearch._repair_path, "connectivity fix"
RECURSIVE Tabu_Connect(_, _, _)
Tabu_Connect(p, i, final_path) ==
    IF i > Len(p) THEN final_path
    ELSE LET u == Last(final_path)
             v == p[i]
         IN IF ~has_edge(graph, u, v)
            THEN LET bridge == sp[<<u, v>>]
                     end_bridge == sp[<<u, destination>>]
                 IN IF bridge # NoPath
                    THEN Tabu_Connect(p, i + 1, final_path \o Tail(bridge))
                    ELSE IF end_bridge # NoPath
                         THEN final_path \o Tail(end_bridge)
                         ELSE final_path
            ELSE Tabu_Connect(p, i + 1, Append(final_path, v))

Tabu_repair_path(p) ==
    IF p = <<>> THEN p
    ELSE LET clean_path == LoopRemoval(ForceEndpoints(p), <<>>)
         IN Tabu_Connect(clean_path, 2, <<clean_path[1]>>)

-----------------------------------------------------------------------------
(* Path repair on its own: one call of each _repair_path on any sequence *)

RepairGraphs == {UniformGraph(EdgesT), UniformGraph(EdgesSquare),
                 UniformGraph(EdgesSplit), UniformGraph(EdgesKite)}

InitRepair ==
    /\ graph \in RepairGraphs
    /\ sp \in ShortestPathTables(graph)
    /\ source \in Nodes
    /\ destination \in Nodes \ {source}
    /\ path \in SeqsUpTo(Nodes, MaxLen)
    /\ weights = [delay |-> 1, reliability |-> 1, resource |-> 1]
    /\ network_generator = TRUE
    /\ pc = "call"
    /\ result = [ga |-> <<>>, sa |-> <<>>, pso |-> <<>>, tabu |-> <<>>]
    /\ NoOptimizer

RepairCall ==
    /\ pc = "call"
    /\ result' = [ga |-> GA_repair_path(path), sa |-> SA_repair_path(path),
                  pso |-> PSO_repair_path(path), tabu |-> Tabu_repair_path(path)]
    /\ pc' = "return"
    /\ UNCHANGED <<envVars, path, optVars>>

NextRepair == RepairCall
SpecRepair == InitRepair /\ [][NextRepair]_vars

-----------------------------------------------------------------------------
(* What the optimizers share *)

\* _calculate_cost of PSO, SA and tabu search
calculate_cost(p) ==
    IF ~network_generator THEN Inf
    ELSE calculate_total_cost(graph, p, weights)

\* _get_initial_solution of SA and tabu search
get_initial_solution ==
    IF sp[<<source, destination>>] # NoPath
    THEN sp[<<source, destination>>] ELSE <<source, destination>>

Nodeset(p) == {p[i] : i \in 1..Len(p)}
RemoveAt(p, j) == SubSeq(p, 1, j - 1) \o SubSeq(p, j + 1, Len(p))
InsertAfter(p, j, x) == SubSeq(p, 1, j) \o <<x>> \o SubSeq(p, j + 1, Len(p))
Inner(p) == SubSeq(p, 2, Len(p) - 1)

-----------------------------------------------------------------------------
(* Tabu search *)

tabu_tenure == 10

\* the sequences _generate_neighbor can hand to _repair_path, one per outcome
\* of its random draws (positions count from 1)
Tabu_Moves(p) ==
    LET n == Len(p)
        removed == IF n > 2 THEN {RemoveAt(p, j) : j \in 2..(n - 1)} ELSE {}
        inserted == UNION {{InsertAfter(p, j, x) : x \in neighbors(graph, p[j]) \ Nodeset(p)}
                           : j \in 1..(n - 1)}
        replaced == IF n > 3
                    THEN {IF sp[<<p[a], p[b]>>] # NoPath
                          THEN SubSeq(p, 1, a) \o Inner(sp[<<p[a], p[b]>>]) \o SubSeq(p, b, n)
                          ELSE p
                          : <<a, b>> \in {pr \in (2..(n - 2)) \X (3..(n - 1)) : pr[1] < pr[2]}}
                    ELSE {}
    IN removed \cup inserted \cup replaced \cup {p}

\* TabuSearch._generate_neighbor: the neighbors it can return
Tabu_generate_neighbor(p) ==
    IF Len(p) < 2 THEN {p}
    ELSE {Tabu_repair_path(q) : q \in Tabu_Moves(p)}

\* "if path_hash in self.tabu_list: if self.tabu_list[path_hash] > iteration"
Tabu_is_tabu(list, p, it) == p \in DOMAIN list /\ list[p] > it

\* optimize(), up to the loop
TabuStart ==
    /\ alg = "tabu" /\ pc = "start"
    /\ IF ~network_generator
       THEN /\ result' = [best_path |-> <<>>, best_cost |-> Fin(0)]
            /\ pc' = "done"
            /\ UNCHANGED <<current_path, current_cost, best_path, best_cost, history>>
       ELSE /\ current_path' = get_initial_solution
            /\ current_cost' = calculate_cost(get_initial_solution)
            /\ best_path' = get_initial_solution
            /\ best_cost' = calculate_cost(get_initial_solution)
            /\ pc' = "loop"
            /\ history' = NewHistory({"best_cost", "current_cost"})
            /\ UNCHANGED result
    /\ UNCHANGED <<envVars, path, alg, params, iteration, inner, tabuVars,
                   acoVars, saVars,
                   gaVars, psoVars, sessionVars>>

\* one pass of "for _ in range(self.neighborhood_size)": a candidate is
\* generated, priced, checked against the tabu list and the aspiration
\* criterion, and kept when it is the best allowed one so far
TabuCandidate ==
    /\ alg = "tabu" /\ pc = "loop"
    /\ iteration < params.num_iterations
    /\ inner < params.neighborhood_size
    /\ \E nb \in Tabu_generate_neighbor(current_path) :
         LET cost == calculate_cost(nb)
             tabu == Tabu_is_tabu(tabu_list, nb, iteration) /\ ~FLt(cost, best_cost)
         IN IF nb = <<>>
            THEN UNCHANGED <<neighbor, neighbor_cost, is_tabu,
                             best_neighbor_path, best_neighbor_cost>>
            ELSE /\ neighbor' = nb
                 /\ neighbor_cost' = cost
                 /\ is_tabu' = tabu
                 /\ IF ~tabu /\ FLt(cost, best_neighbor_cost)
                    THEN best_neighbor_cost' = cost /\ best_neighbor_path' = nb
                    ELSE UNCHANGED <<best_neighbor_path, best_neighbor_cost>>
    /\ inner' = inner + 1
    /\ UNCHANGED <<envVars, pc, path, result, alg, params, iteration, current_path,
                   current_cost, best_path, best_cost, tabu_list, acoVars, saVars,
                   gaVars, psoVars, history, sessionVars>>

\* TabuEndIteration of a search that moves only to a neighbour that costs
\* less than the current solution
TabuEndIterationDownhill ==
    /\ alg = "tabu" /\ pc = "loop"
    /\ iteration < params.num_iterations
    /\ inner = params.neighborhood_size
    /\ IF best_neighbor_path # None /\ FLt(best_neighbor_cost, current_cost)
       THEN /\ current_path' = best_neighbor_path
            /\ current_cost' = best_neighbor_cost
            /\ tabu_list' = [p \in DOMAIN tabu_list \cup {best_neighbor_path} |->
                                IF p = best_neighbor_path THEN iteration + tabu_tenure
                                ELSE tabu_list[p]]
            /\ IF FLt(best_neighbor_cost, best_cost)
               THEN best_cost' = best_neighbor_cost /\ best_path' = best_neighbor_path
               ELSE UNCHANGED <<best_path, best_cost>>
       ELSE UNCHANGED <<current_path, current_cost, tabu_list, best_path, best_cost>>
    /\ iteration' = iteration + 1
    /\ inner' = 0
    /\ neighbor' = None /\ neighbor_cost' = Inf /\ is_tabu' = FALSE
    /\ best_neighbor_path' = None /\ best_neighbor_cost' = Inf
    /\ history' = Appended(history, {"best_cost", "current_cost"})
    /\ UNCHANGED <<envVars, pc, path, result, alg, params, acoVars, saVars,
                   gaVars, psoVars, sessionVars>>

\* TabuEndIteration of a search that never updates its global best
TabuEndIterationBestKept ==
    /\ alg = "tabu" /\ pc = "loop"
    /\ iteration < params.num_iterations
    /\ inner = params.neighborhood_size
    /\ IF best_neighbor_path # None
       THEN /\ current_path' = best_neighbor_path
            /\ current_cost' = best_neighbor_cost
            /\ tabu_list' = [p \in DOMAIN tabu_list \cup {best_neighbor_path} |->
                                IF p = best_neighbor_path THEN iteration + tabu_tenure
                                ELSE tabu_list[p]]
       ELSE UNCHANGED <<current_path, current_cost, tabu_list>>
    /\ UNCHANGED <<best_path, best_cost>>
    /\ iteration' = iteration + 1
    /\ inner' = 0
    /\ neighbor' = None /\ neighbor_cost' = Inf /\ is_tabu' = FALSE
    /\ best_neighbor_path' = None /\ best_neighbor_cost' = Inf
    /\ history' = Appended(history, {"best_cost", "current_cost"})
    /\ UNCHANGED <<envVars, pc, path, result, alg, params, acoVars, saVars,
                   gaVars, psoVars, sessionVars>>

\* the end of one iteration: move to the best neighbor, record it tabu,
\* update the global best
TabuEndIteration ==
    /\ alg = "tabu" /\ pc = "loop"
    /\ iteration < params.num_iterations
    /\ inner = params.neighborhood_size
    /\ IF best_neighbor_path # None
       THEN /\ current_path' = best_neighbor_path
            /\ current_cost' = best_neighbor_cost
            /\ tabu_list' = [p \in DOMAIN tabu_list \cup {best_neighbor_path} |->
                                IF p = best_neighbor_path THEN iteration + tabu_tenure
                                ELSE tabu_list[p]]
            /\ IF FLt(best_neighbor_cost, best_cost)
               THEN best_cost' = best_neighbor_cost /\ best_path' = best_neighbor_path
               ELSE UNCHANGED <<best_path, best_cost>>
       ELSE UNCHANGED <<current_path, current_cost, tabu_list, best_path, best_cost>>
    /\ iteration' = iteration + 1
    /\ inner' = 0
    /\ neighbor' = None /\ neighbor_cost' = Inf /\ is_tabu' = FALSE
    /\ best_neighbor_path' = None /\ best_neighbor_cost' = Inf
    /\ history' = Appended(history, {"best_cost", "current_cost"})
    /\ UNCHANGED <<envVars, pc, path, result, alg, params, acoVars, saVars,
                   gaVars, psoVars, sessionVars>>

\* "return best_path, best_cost, history"
TabuReturn ==
    /\ alg = "tabu" /\ pc = "loop"
    /\ iteration = params.num_iterations
    /\ result' = [best_path |-> best_path, best_cost |-> best_cost]
    /\ pc' = "done"
    /\ UNCHANGED <<envVars, path, optVars>>

NextTabu == TabuStart \/ TabuCandidate \/ TabuEndIteration \/ TabuReturn

-----------------------------------------------------------------------------
(* Ant colony optimization *)

Q == 100                          \* pheromone deposit factor
evaporation_rate == Scale \div 2  \* 0.5

DirectedEdges(g) == {pr \in g.nodes \X g.nodes : has_edge(g, pr[1], pr[2])}

\* a pheromone level is the exact rational num/den of 1/Scale units, den a
\* power of two: multiplying by 1 - evaporation_rate loses nothing, as in
\* binary floating point
RECURSIVE Reduce(_)
Reduce(r) ==
    IF r.num = 0 THEN Rel(0, 1)
    ELSE IF r.num % 2 = 0 /\ r.den % 2 = 0 THEN Reduce(Rel(r.num \div 2, r.den \div 2))
    ELSE r

\* _initialize_pheromones: 1.0 on both orientations of every edge
initialize_pheromones(g) == [e \in DirectedEdges(g) |-> Rel(Scale, 1)]

\* "if path[-1] != self.destination": complete the path or give up with []
ACO_Complete(p) ==
    IF Last(p) = destination THEN p
    ELSE IF sp[<<Last(p), destination>>] # NoPath
         THEN p \o Tail(sp[<<Last(p), destination>>])
         ELSE <<>>

\* _construct_path: the paths one ant can come back with, from the loop head
\* with the given locals.  Every candidate has a positive probability in
\* _select_next_node (pheromone levels and heuristics stay positive), so the
\* levels decide how likely a path is, not whether it is possible.
RECURSIVE ACO_Construct(_, _, _, _)
ACO_Construct(p, visited, current, steps) ==
    IF current = destination \/ steps >= 2 * Cardinality(graph.nodes)
    THEN {ACO_Complete(p)}
    ELSE LET candidates == neighbors(graph, current) \ visited
             jump == IF destination \in neighbors(graph, current)
                     THEN {p \o <<destination>>} ELSE {}
             walk == IF candidates = {}
                     THEN {IF sp[<<current, destination>>] # NoPath
                           THEN p \o Tail(sp[<<current, destination>>])
                           ELSE <<>>}
                     ELSE UNION {ACO_Construct(p \o <<n>>, visited \cup {n}, n, steps + 1)
                                 : n \in candidates}
         IN jump \cup walk

construct_path == ACO_Construct(<<source>>, {source}, source, 0)

\* how often the path steps from u to v or from v to u
Traversals(p, u, v) ==
    Cardinality({i \in 1..(Len(p) - 1) : {p[i], p[i + 1]} = {u, v} /\ u # v})

\* "delta = self.Q / cost if cost > 0 else 0", skipped when cost is inf
Deposit(cost) ==
    IF IsFin(cost) /\ cost.v > 0 THEN (Q * Scale * Scale) \div cost.v ELSE 0

RECURSIVE DepositOn(_, _, _, _)
DepositOn(ps, cs, u, v) ==
    IF ps = <<>> THEN 0
    ELSE (IF FIsInf(Head(cs)) THEN 0 ELSE Traversals(Head(ps), u, v) * Deposit(Head(cs)))
         + DepositOn(Tail(ps), Tail(cs), u, v)

\* "self.pheromone[edge] *= (1 - self.evaporation_rate)"
Evaporate(level) == Reduce(RelMul(level, Reduce(Rel(Scale - evaporation_rate, Scale))))

\* the deposits of all ants together
RECURSIVE SumDeposits(_)
SumDeposits(cs) ==
    IF cs = <<>> THEN 0
    ELSE (IF FIsInf(Head(cs)) THEN 0 ELSE Deposit(Head(cs))) + SumDeposits(Tail(cs))

\* _update_pheromones with every ant depositing on every edge of the graph
update_pheromones_everywhere(ph, ps, cs) ==
    [e \in DOMAIN ph |->
        LET level == Evaporate(ph[e])
        IN Reduce(Rel(level.num + SumDeposits(cs) * level.den, level.den))]

\* _update_pheromones with a deposit only on the orientation walked
update_pheromones_one_way(ph, ps, cs) ==
    LET Walked(k, e) ==
            Cardinality({i \in 1..(Len(ps[k]) - 1) : <<ps[k][i], ps[k][i + 1]>> = e})
        Laid[k \in 0..Len(ps)] ==
            [e \in DOMAIN ph |->
                IF k = 0 THEN 0
                ELSE Laid[k - 1][e] + Walked(k, e) * Deposit(cs[k])]
    IN [e \in DOMAIN ph |->
           LET level == Evaporate(ph[e])
           IN Reduce(Rel(level.num + Laid[Len(ps)][e] * level.den, level.den))]

\* _update_pheromones: evaporation, then the deposits of every ant
update_pheromones(ph, ps, cs) ==
    [e \in DOMAIN ph |->
        LET level == Evaporate(ph[e])
        IN Reduce(Rel(level.num + DepositOn(ps, cs, e[1], e[2]) * level.den, level.den))]

\* optimize(), up to the loop
ACOStart ==
    /\ alg = "aco" /\ pc = "start"
    /\ IF ~network_generator
       THEN /\ result' = [best_path |-> <<>>, best_cost |-> Inf]
            /\ pc' = "done"
            /\ UNCHANGED <<best_path, best_cost, history>>
       ELSE /\ best_path' = None
            /\ best_cost' = Inf
            /\ pc' = "loop"
            /\ history' = NewHistory({"best_cost", "avg_cost", "num_ants_succeeded"})
            /\ UNCHANGED result
    /\ UNCHANGED <<envVars, path, alg, params, iteration, inner, current_path,
                   current_cost, tabuVars, acoVars, saVars,
                   gaVars, psoVars, sessionVars>>

\* one pass of "for ant in range(self.num_ants)"
ACOAnt ==
    /\ alg = "aco" /\ pc = "loop"
    /\ iteration < params.num_iterations
    /\ inner < params.num_ants
    /\ \E p \in construct_path :
         LET cost == calculate_total_cost(graph, p, weights)
         IN IF p # <<>>
            THEN /\ paths' = Append(paths, p)
                 /\ costs' = Append(costs, cost)
                 /\ IF FLt(cost, best_cost)
                    THEN best_cost' = cost /\ best_path' = p
                    ELSE UNCHANGED <<best_path, best_cost>>
            ELSE UNCHANGED <<paths, costs, best_path, best_cost>>
    /\ inner' = inner + 1
    /\ UNCHANGED <<envVars, pc, path, result, alg, params, iteration, current_path,
                   current_cost, tabuVars, pheromone, saVars,
                   gaVars, psoVars, history, sessionVars>>

\* ACOEndIteration with the levels kept on the graph, as an edge attribute,
\* instead of in self.pheromone
ACOEndIterationOnGraph ==
    /\ alg = "aco" /\ pc = "loop"
    /\ iteration < params.num_iterations
    /\ inner = params.num_ants
    /\ graph' = [k \in DOMAIN graph \cup {"pheromone"} |->
                    IF k = "pheromone"
                    THEN (IF paths # <<>> THEN update_pheromones(pheromone, paths, costs)
                          ELSE pheromone)
                    ELSE graph[k]]
    /\ history' = Appended(history, {"best_cost", "avg_cost", "num_ants_succeeded"})
    /\ paths' = <<>> /\ costs' = <<>>
    /\ iteration' = iteration + 1
    /\ inner' = 0
    /\ UNCHANGED <<sp, source, destination, weights, network_generator, pc, path, result,
                   alg, params, current_path, current_cost, best_path, best_cost,
                   tabuVars, pheromone, saVars, gaVars, psoVars, sessionVars>>

\* ACOEndIteration with the pheromone map an attribute of the class: the
\* update also lands in the map another colony reads
ACOEndIterationSharedMap ==
    /\ alg = "aco" /\ pc = "loop"
    /\ iteration < params.num_iterations
    /\ inner = params.num_ants
    /\ pheromone' = IF paths # <<>> THEN update_pheromones(pheromone, paths, costs)
                    ELSE pheromone
    /\ other' = IF other.id # 0 /\ other.state.alg = "aco"
                THEN [other EXCEPT !.state.pheromone = pheromone']
                ELSE other
    /\ history' = Appended(history, {"best_cost", "avg_cost", "num_ants_succeeded"})
    /\ paths' = <<>> /\ costs' = <<>>
    /\ iteration' = iteration + 1
    /\ inner' = 0
    /\ UNCHANGED <<envVars, pc, path, result, alg, params, current_path, current_cost,
                   best_path, best_cost, tabuVars, saVars, gaVars, psoVars, calls>>

\* the end of one iteration: the pheromone update; the next iteration starts
\* with "paths = []" and "costs = []"
ACOEndIteration ==
    /\ alg = "aco" /\ pc = "loop"
    /\ iteration < params.num_iterations
    /\ inner = params.num_ants
    /\ pheromone' = IF paths # <<>> THEN update_pheromones(pheromone, paths, costs)
                    ELSE pheromone
    /\ history' = Appended(history, {"best_cost", "avg_cost", "num_ants_succeeded"})
    /\ paths' = <<>> /\ costs' = <<>>
    /\ iteration' = iteration + 1
    /\ inner' = 0
    /\ UNCHANGED <<envVars, pc, path, result, alg, params, current_path, current_cost,
                   best_path, best_cost, tabuVars, saVars,
                   gaVars, psoVars, sessionVars>>

\* "return best_path, best_cost, history"
ACOReturn ==
    /\ alg = "aco" /\ pc = "loop"
    /\ iteration = params.num_iterations
    /\ result' = [best_path |-> best_path, best_cost |-> best_cost]
    /\ pc' = "done"
    /\ UNCHANGED <<envVars, path, optVars>>

NextACO == ACOStart \/ ACOAnt \/ ACOEndIteration \/ ACOReturn

-----------------------------------------------------------------------------
(* Simulated annealing *)

cooling_rate == (Scale * 95) \div 100   \* 0.95

SwapAt(p, i, j) == [k \in 1..Len(p) |-> IF k = i THEN p[j] ELSE IF k = j THEN p[i] ELSE p[k]]

\* "replace a segment with shortest path" with the draws idx1 and idx2, which
\* count from 0: new_path[idx1 - 1] is p[idx1], new_path[idx2] is p[idx2 + 1]
SA_replace_segment(p, idx1, idx2) ==
    LET segment == sp[<<p[idx1], p[idx2 + 1]>>]
    IN IF segment # NoPath THEN SubSeq(p, 1, idx1) \o Tail(segment) ELSE p

\* the sequences _get_neighbor can hand to _repair_path, one per outcome of
\* its random draws (positions count from 1)
SA_Moves(p) ==
    LET n == Len(p)
        removed == IF n > 2 THEN {RemoveAt(p, j) : j \in 2..(n - 1)} ELSE {}
        inserted == UNION {{InsertAfter(p, j, x)
                            : x \in neighbors(graph, p[j]) \ Nodeset(SubSeq(p, 1, j))}
                           : j \in 1..n}
        replaced == IF n > 3
                    THEN {SA_replace_segment(p, pr[1], pr[2])
                          : pr \in {pr \in (1..(n - 3)) \X (3..(n - 1)) :
                                       pr[1] + 2 <= pr[2]}}
                    ELSE {}
        swapped == IF n > 3
                   THEN {SwapAt(p, i, j) : <<i, j>> \in (2..(n - 1)) \X (2..(n - 1))}
                   ELSE {}
    IN removed \cup inserted \cup replaced \cup swapped \cup {p}

\* SimulatedAnnealing._get_neighbor: the neighbors it can return
SA_get_neighbor(p) ==
    IF Len(p) < 2 THEN {p}
    ELSE {SA_repair_path(q) : q \in SA_Moves(p)}

\* new_cost - current_cost in floats
FSub(x, y) ==
    IF x.kind = "nan" \/ y.kind = "nan" THEN NaN
    ELSE IF IsFin(x) /\ IsFin(y) THEN Fin(x.v - y.v)
    ELSE IF IsFin(y) THEN Inf
    ELSE IF IsFin(x) THEN [kind |-> "-inf", v |-> 0]
    ELSE NaN

\* _acceptance_probability with the temperature looked at first
acceptance_probability_temperature_first(cur, new, temp) ==
    IF ~(IsFin(temp) /\ temp.v > 0) THEN "zero"
    ELSE IF FLt(new, cur) THEN "one"
    ELSE LET d == FSub(new, cur)
         IN IF IsFin(d) /\ d.v = 0 THEN "one"
            ELSE IF IsFin(d) THEN "between"
            ELSE "zero"

\* _acceptance_probability, as far as "random.random() < acceptance_prob"
\* needs it: "one" is 1.0 or more, "zero" is 0.0 or nan, "between" lies
\* strictly between (exp of a negative finite number)
acceptance_probability(cur, new, temp) ==
    IF FLt(new, cur) THEN "one"
    ELSE IF ~(IsFin(temp) /\ temp.v > 0) THEN "zero"
    ELSE LET d == FSub(new, cur)
         IN IF IsFin(d) /\ d.v = 0 THEN "one"
            ELSE IF IsFin(d) THEN "between"
            ELSE IF d.kind = "-inf" THEN "one"
            ELSE "zero"

\* the outcomes of "random.random() < acceptance_prob"
Accepts(prob) ==
    IF prob = "one" THEN {TRUE} ELSE IF prob = "zero" THEN {FALSE} ELSE BOOLEAN

\* optimize(), up to the loop
SAStart ==
    /\ alg = "sa" /\ pc = "start"
    /\ IF ~network_generator
       THEN /\ result' = [best_path |-> <<>>, best_cost |-> Inf]
            /\ pc' = "done"
            /\ UNCHANGED <<current_path, current_cost, best_path, best_cost, temperature,
                             history>>
       ELSE /\ current_path' = get_initial_solution
            /\ current_cost' = calculate_cost(get_initial_solution)
            /\ best_path' = get_initial_solution
            /\ best_cost' = calculate_cost(get_initial_solution)
            /\ temperature' = params.initial_temp
            /\ pc' = "loop"
            /\ history' = NewHistory({"best_cost", "current_cost", "temperature", "acceptance_rate"})
            /\ UNCHANGED result
    /\ UNCHANGED <<envVars, path, alg, params, iteration, inner, tabuVars, acoVars,
                   gaVars, psoVars, sessionVars>>

\* one pass of "for _ in range(self.iterations_per_temp)"
SAStep ==
    /\ alg = "sa" /\ pc = "loop"
    /\ iteration < params.num_iterations
    /\ inner < params.iterations_per_temp
    /\ \E new_path \in SA_get_neighbor(current_path) :
         LET new_cost == calculate_cost(new_path)
         IN \E accepted \in Accepts(acceptance_probability(current_cost, new_cost, temperature)) :
              IF accepted
              THEN /\ current_path' = new_path
                   /\ current_cost' = new_cost
                   /\ IF FLt(new_cost, best_cost)
                      THEN best_path' = new_path /\ best_cost' = new_cost
                      ELSE UNCHANGED <<best_path, best_cost>>
              ELSE UNCHANGED <<current_path, current_cost, best_path, best_cost>>
    /\ inner' = inner + 1
    /\ UNCHANGED <<envVars, pc, path, result, alg, params, iteration, tabuVars,
                   acoVars, saVars,
                   gaVars, psoVars, history, sessionVars>>

\* "temperature *= self.cooling_rate"
SACool ==
    /\ alg = "sa" /\ pc = "loop"
    /\ iteration < params.num_iterations
    /\ inner = params.iterations_per_temp
    /\ temperature' = Fin((temperature.v * cooling_rate) \div Scale)
    /\ history' = Appended(history, {"best_cost", "current_cost", "temperature",
                                     "acceptance_rate"})
    /\ iteration' = iteration + 1
    /\ inner' = 0
    /\ UNCHANGED <<envVars, pc, path, result, alg, params, current_path, current_cost,
                   best_path, best_cost, tabuVars, acoVars,
                   gaVars, psoVars, sessionVars>>

\* "return best_path, best_cost, history"
SAReturn ==
    /\ alg = "sa" /\ pc = "loop"
    /\ iteration = params.num_iterations
    /\ result' = [best_path |-> best_path, best_cost |-> best_cost]
    /\ pc' = "done"
    /\ UNCHANGED <<envVars, path, optVars>>

NextSA == SAStart \/ SAStep \/ SACool \/ SAReturn

-----------------------------------------------------------------------------
(* Genetic algorithm *)

tournament_size == 5

\* _generate_random_path: the shortest path, or the shortest path with a
\* neighbor of one of its nodes inserted after that node; [] when there is
\* no path
GA_generate_random_path ==
    LET base == sp[<<source, destination>>]
        n == Len(base)
    IN IF base = NoPath THEN {<<>>}
       ELSE IF n > 2
       THEN {base} \cup
            UNION {{InsertAfter(base, j, x) :
                       x \in {y \in neighbors(graph, base[j]) \ Nodeset(SubSeq(base, 1, j)) :
                                 has_path(sp, y, base[j + 1])}}
                   : j \in 1..(n - 1)}
       ELSE {base}

\* fitness values: 0.0, 1.0 / cost for a finite cost c > 0, or nan
ZeroFitness == [kind |-> "zero", c |-> 0]
NaNFitness == [kind |-> "nan", c |-> 0]
Inverse(c) == [kind |-> "inv", c |-> c]

\* _calculate_fitness
calculate_fitness(p) ==
    IF ~network_generator THEN ZeroFitness
    ELSE LET cost == calculate_total_cost(graph, p, weights)
         IN IF FIsInf(cost) \/ cost = Fin(0) THEN ZeroFitness
            ELSE IF cost.kind = "nan" THEN NaNFitness
            ELSE Inverse(cost.v)

\* a > b on fitness values: every comparison with nan is False
FitGt(a, b) ==
    /\ a.kind = "inv"
    /\ (b.kind = "zero" \/ (b.kind = "inv" /\ a.c < b.c))

Fitnesses(pop) == [i \in 1..Len(pop) |-> calculate_fitness(pop[i])]

\* np.argmax: the first nan if there is one, else the first maximum
ArgMax(fits) ==
    IF \E i \in 1..Len(fits) : fits[i].kind = "nan"
    THEN CHOOSE i \in 1..Len(fits) :
            /\ fits[i].kind = "nan"
            /\ \A j \in 1..(i - 1) : fits[j].kind # "nan"
    ELSE CHOOSE i \in 1..Len(fits) :
            /\ \A j \in 1..Len(fits) : ~FitGt(fits[j], fits[i])
            /\ \A j \in 1..(i - 1) : FitGt(fits[i], fits[j])

\* the order np.argsort sorts by: ascending, nan last
SortsBefore(a, b) ==
    IF a.kind = "nan" THEN FALSE
    ELSE IF b.kind = "nan" THEN TRUE
    ELSE FitGt(b, a)

\* np.argsort: the orders of the indices it can return (equal values in any order)
ArgSort(fits) ==
    {o \in [1..Len(fits) -> 1..Len(fits)] :
        /\ \A i, j \in 1..Len(fits) : i # j => o[i] # o[j]
        /\ \A i, j \in 1..Len(fits) : i < j => ~SortsBefore(fits[o[j]], fits[o[i]])}

\* "np.argsort(fitnesses)[-self.elite_size:]": the last elite_size indices,
\* and the whole array when elite_size is 0 or more than its length
EliteIndices(o, elite_size) ==
    IF elite_size = 0 \/ elite_size >= Len(o) THEN o
    ELSE SubSeq(o, Len(o) - elite_size + 1, Len(o))

\* _selection: a tournament over min(5, len(population)) individuals drawn in
\* a random order, folded by max(): an individual wins when its fitness is nan
\* (nothing compares greater than it once it leads) or is the greatest of the
\* tournament's other values
GA_selection(pop, fits) ==
    LET k == IF tournament_size < Len(pop) THEN tournament_size ELSE Len(pop)
        tournaments == {S \in SUBSET (1..Len(pop)) : Cardinality(S) = k}
        Wins(S, i) ==
            \/ fits[i].kind = "nan"
            \/ \A j \in S : fits[j].kind # "nan" => ~FitGt(fits[j], fits[i])
    IN UNION {{pop[i] : i \in {w \in S : Wins(S, w)}} : S \in tournaments}

\* list.index
Index(p, x) == CHOOSE i \in 1..Len(p) : p[i] = x /\ \A j \in 1..(i - 1) : p[j] # x

\* _crossover: the pairs of children it can return; a child is Raised when
\* its repair raises
GA_crossover(parent1, parent2) ==
    LET common_nodes == (Nodeset(parent1) \cap Nodeset(parent2)) \ {source, destination}
        Cross(a, b, c) == SubSeq(a, 1, Index(a, c) - 1) \o SubSeq(b, Index(b, c), Len(b))
    IN {<<parent1, parent2>>} \cup
       {<<GA_repair_path(Cross(parent1, parent2, c)),
          GA_repair_path(Cross(parent2, parent1, c))>> : c \in common_nodes}

\* the sequences _mutate can hand to _repair_path for a path of more than
\* two nodes (positions count from 1)
GA_Mutations(p) ==
    LET n == Len(p)
        Candidates(j) == neighbors(graph, p[j]) \ Nodeset(p)
        inserted == UNION {{InsertAfter(p, j, x) : x \in Candidates(j)} : j \in 1..(n - 1)}
        removed == IF n > 3 THEN {RemoveAt(p, j) : j \in 2..(n - 1)} ELSE {}
        Replace(pos1, pos2) ==
            LET segment == sp[<<p[pos1], p[pos2 + 1]>>]
                upto == IF pos2 < Len(segment) THEN pos2 ELSE Len(segment)
            IN IF segment = NoPath THEN p
               ELSE SubSeq(p, 1, pos1) \o SubSeq(segment, 2, upto) \o SubSeq(p, pos2 + 1, n)
        replaced == IF n > 3
                    THEN {Replace(pr[1], pr[2]) :
                             pr \in {q \in (1..(n - 2)) \X (2..(n - 1)) : q[1] < q[2]}}
                    ELSE {}
        unchanged == IF n <= 3 \/ \E j \in 1..(n - 1) : Candidates(j) = {}
                     THEN {p} ELSE {}
    IN inserted \cup removed \cup replaced \cup unchanged

\* _mutate: the paths it can return (Raised when the repair raises)
GA_mutate(p) ==
    IF Len(p) <= 2 THEN {p}
    ELSE {p} \cup {GA_repair_path(q) : q \in GA_Mutations(p)}

\* _initialize_population, up to its first loop
GAStart ==
    /\ alg = "ga" /\ pc = "start"
    /\ population' = IF sp[<<source, destination>>] # NoPath
                     THEN <<sp[<<source, destination>>]>> ELSE <<>>
    /\ attempts' = 0
    /\ pc' = "init"
    /\ UNCHANGED <<envVars, path, result, runVars, tabuVars, acoVars, saVars,
                   new_population, best_fitness, psoVars, sessionVars>>

\* one pass of "while len(population) < self.population_size and attempts <
\* max_attempts"
GAInitAttempt ==
    /\ alg = "ga" /\ pc = "init"
    /\ Len(population) < params.population_size
    /\ attempts < params.population_size * 10
    /\ \E q \in GA_generate_random_path :
         population' = IF q # <<>> /\ q \notin Nodeset(population)
                       THEN Append(population, q) ELSE population
    /\ attempts' = attempts + 1
    /\ UNCHANGED <<envVars, pc, path, result, runVars, tabuVars, acoVars, saVars,
                   new_population, best_fitness, psoVars, sessionVars>>

\* one pass of "fill remaining with shortest path if needed"
GAInitFill ==
    /\ alg = "ga" /\ pc = "init"
    /\ Len(population) < params.population_size
    /\ attempts >= params.population_size * 10
    /\ population' = Append(population,
                            IF sp[<<source, destination>>] # NoPath
                            THEN sp[<<source, destination>>]
                            ELSE <<source, destination>>)
    /\ UNCHANGED <<envVars, pc, path, result, runVars, tabuVars, acoVars, saVars,
                   new_population, attempts, best_fitness, psoVars, sessionVars>>

\* optimize(), from the population returned to the loop
GAInitDone ==
    /\ alg = "ga" /\ pc = "init"
    /\ Len(population) >= params.population_size
    /\ best_path' = None
    /\ best_fitness' = ZeroFitness
    /\ history' = NewHistory({"best_fitness", "avg_fitness", "diversity"})
    /\ attempts' = 0        \* a local variable of _initialize_population
    /\ pc' = "loop"
    /\ UNCHANGED <<envVars, path, result, alg, params, iteration, inner, current_path,
                   current_cost, best_cost, tabuVars, acoVars, saVars,
                   population, new_population, psoVars, sessionVars>>

\* the head of one generation: the fitnesses, the best solution tracked,
\* the elite copied to the new population
GAGeneration ==
    /\ alg = "ga" /\ pc = "loop"
    /\ iteration < params.generations
    /\ LET fitnesses == Fitnesses(population)
           max_fitness_idx == ArgMax(fitnesses)
       IN /\ IF FitGt(fitnesses[max_fitness_idx], best_fitness)
             THEN /\ best_fitness' = fitnesses[max_fitness_idx]
                  /\ best_path' = population[max_fitness_idx]
             ELSE UNCHANGED <<best_fitness, best_path>>
          /\ \E o \in ArgSort(fitnesses) :
               LET elite_indices == EliteIndices(o, params.elite_size)
               IN new_population' = [i \in 1..Len(elite_indices) |->
                                        population[elite_indices[i]]]
    /\ history' = Appended(history, {"best_fitness", "avg_fitness", "diversity"})
    /\ pc' = "offspring"
    /\ UNCHANGED <<envVars, path, result, alg, params, iteration, inner, current_path,
                   current_cost, best_cost, tabuVars, acoVars, saVars,
                   population, attempts, psoVars, sessionVars>>

\* one pass of "while len(new_population) < self.population_size": two
\* parents selected, crossed and mutated, their children appended while
\* there is room; an exception of a repair leaves optimize()
GAOffspring ==
    /\ alg = "ga" /\ pc = "offspring"
    /\ Len(new_population) < params.population_size
    /\ LET fitnesses == Fitnesses(population)
       IN \E parent1 \in GA_selection(population, fitnesses),
             parent2 \in GA_selection(population, fitnesses) :
            \E children \in GA_crossover(parent1, parent2) :
              IF Raised \in {children[1], children[2]}
              THEN /\ result' = [best_path |-> Raised, best_cost |-> Inf]
                   /\ pc' = "done"
                   /\ UNCHANGED new_population
              ELSE \E child1 \in GA_mutate(children[1]),
                      child2 \in GA_mutate(children[2]) :
                     IF Raised \in {child1, child2}
                     THEN /\ result' = [best_path |-> Raised, best_cost |-> Inf]
                          /\ pc' = "done"
                          /\ UNCHANGED new_population
                     ELSE /\ new_population' =
                               IF Len(new_population) + 1 < params.population_size
                               THEN new_population \o <<child1, child2>>
                               ELSE Append(new_population, child1)
                          /\ UNCHANGED <<pc, result>>
    /\ UNCHANGED <<envVars, path, runVars, tabuVars, acoVars, saVars,
                   population, attempts, best_fitness, psoVars, sessionVars>>

\* GAEndGeneration in a loop that does not advance its generation counter
GAEndGenerationSameGeneration ==
    /\ alg = "ga" /\ pc = "offspring"
    /\ Len(new_population) >= params.population_size
    /\ population' = SubSeq(new_population, 1, params.population_size)
    /\ pc' = "loop"
    /\ UNCHANGED <<envVars, path, result, alg, params, iteration, inner, current_path,
                   current_cost, best_path, best_cost, tabuVars, acoVars, saVars,
                   new_population, attempts, best_fitness, psoVars, history, sessionVars>>

\* "population = new_population[:self.population_size]"
GAEndGeneration ==
    /\ alg = "ga" /\ pc = "offspring"
    /\ Len(new_population) >= params.population_size
    /\ population' = SubSeq(new_population, 1, params.population_size)
    /\ iteration' = iteration + 1
    /\ pc' = "loop"
    /\ UNCHANGED <<envVars, path, result, alg, params, inner, current_path,
                   current_cost, best_path, best_cost, tabuVars, acoVars, saVars,
                   new_population, attempts, best_fitness, psoVars, history, sessionVars>>

\* "calculate final cost" and the return
GAReturn ==
    /\ alg = "ga" /\ pc = "loop"
    /\ iteration = params.generations
    /\ best_cost' = IF best_path # None /\ best_path # <<>> /\ network_generator
                    THEN calculate_total_cost(graph, best_path, weights)
                    ELSE Inf
    /\ result' = [best_path |-> best_path, best_cost |-> best_cost']
    /\ pc' = "done"
    /\ UNCHANGED <<envVars, path, alg, params, iteration, inner, current_path,
                   current_cost, best_path, tabuVars, acoVars, saVars, gaVars, psoVars, history, sessionVars>>

NextGA ==
    \/ GAStart \/ GAInitAttempt \/ GAInitFill \/ GAInitDone
    \/ GAGeneration \/ GAOffspring \/ GAEndGeneration \/ GAReturn

-----------------------------------------------------------------------------
(* Particle swarm optimization *)

\* A coordinate of a position is kept as what _position_to_path reads of it:
\* ExactZero when it is 0.0, else int(round(p)) % len(self.nodes_list).
ExactZero == -1

\* _path_to_position: float(node) for the first len(nodes) nodes, 0.0 after
path_to_position(p) ==
    [i \in 1..Cardinality(graph.nodes) |->
        IF i <= Len(p) /\ p[i] # 0 THEN p[i] ELSE ExactZero]

NonZero(c) == c # ExactZero

\* _position_to_path
position_to_path(position) ==
    LET nodes == SelectSeq(position, NonZero)
        with_source == IF nodes = <<>> \/ nodes[1] # source
                       THEN <<source>> \o nodes ELSE nodes
        path_nodes == IF Last(with_source) # destination
                      THEN Append(with_source, destination) ELSE with_source
    IN PSO_repair_path(Dedup(path_nodes, <<>>))

\* the paths one insertion of _generate_random_path can make of the paths qs
PSO_Insertions(qs) ==
    UNION {UNION {{InsertAfter(p, j, x) : x \in neighbors(graph, p[j]) \ Nodeset(p)}
                  : j \in 1..(Len(p) - 1)}
           : p \in qs}

\* ParticleSwarmOptimization._generate_random_path: the shortest path with
\* up to three neighbors inserted, repaired
PSO_generate_random_path ==
    IF sp[<<source, destination>>] = NoPath THEN {<<source, destination>>}
    ELSE LET zero == {sp[<<source, destination>>]}
             one == zero \cup PSO_Insertions(zero)
             two == one \cup PSO_Insertions(one)
             three == two \cup PSO_Insertions(two)
         IN {PSO_repair_path(q) : q \in three}

\* the sequences of distinct nodes that start with u and stay within S
RECURSIVE DistinctFrom(_, _)
DistinctFrom(u, S) ==
    {<<u>>} \cup UNION {{<<u>> \o q : q \in DistinctFrom(x, S \ {u, x})} : x \in S \ {u}}

\* a node sequence as a position with no coordinate 0.0: its last node repeated
Padded(u) ==
    [i \in 1..Cardinality(graph.nodes) |-> IF i <= Len(u) THEN u[i] ELSE Last(u)]

\* The position of a particle after "particles[i] + velocities[i]".  The
\* velocity starts as a Gaussian draw and is pulled by two uniform draws, so
\* the new coordinates are left open: each may round to any node index.
\* _position_to_path drops a coordinate that rounds to a node named earlier
\* in the vector and puts the source first, so one position stands for all
\* that it reads alike: distinct node indices from the source on, the last
\* one repeated to the end.
PSO_Positions == {Padded(u) : u \in DistinctFrom(source, graph.nodes)}

\* np.argmin: the first nan if there is one, else the first minimum
ArgMin(cs) ==
    IF \E i \in 1..Len(cs) : cs[i].kind = "nan"
    THEN CHOOSE i \in 1..Len(cs) :
            /\ cs[i].kind = "nan"
            /\ \A j \in 1..(i - 1) : cs[j].kind # "nan"
    ELSE CHOOSE i \in 1..Len(cs) :
            /\ \A j \in 1..Len(cs) : ~FLt(cs[j], cs[i])
            /\ \A j \in 1..(i - 1) : FLt(cs[i], cs[j])

\* optimize(), up to "initialize particles"
PSOStart ==
    /\ alg = "pso" /\ pc = "start"
    /\ IF ~network_generator
       THEN /\ result' = [best_path |-> <<>>, best_cost |-> Inf]
            /\ pc' = "done"
       ELSE /\ pc' = "init"
            /\ UNCHANGED result
    /\ UNCHANGED <<envVars, path, runVars, tabuVars, acoVars, saVars, gaVars, psoVars, sessionVars>>

\* one pass of "for _ in range(self.num_particles)"
PSOInitParticle ==
    /\ alg = "pso" /\ pc = "init"
    /\ inner < params.num_particles
    /\ \E p \in PSO_generate_random_path :
         /\ personal_best_positions' = Append(personal_best_positions, path_to_position(p))
         /\ personal_best_costs' = Append(personal_best_costs, calculate_cost(p))
    /\ inner' = inner + 1
    /\ UNCHANGED <<envVars, pc, path, result, alg, params, iteration, current_path,
                   current_cost, best_path, best_cost, tabuVars, acoVars, saVars, gaVars,
                   global_best_position, global_best_cost, history, sessionVars>>

\* "find global best"
PSOGlobalBest ==
    /\ alg = "pso" /\ pc = "init"
    /\ inner = params.num_particles
    /\ global_best_position' = personal_best_positions[ArgMin(personal_best_costs)]
    /\ global_best_cost' = personal_best_costs[ArgMin(personal_best_costs)]
    /\ history' = NewHistory({"best_cost", "avg_cost", "diversity"})
    /\ inner' = 0
    /\ pc' = "loop"
    /\ UNCHANGED <<envVars, path, result, alg, params, iteration, current_path,
                   current_cost, best_path, best_cost, tabuVars, acoVars, saVars, gaVars,
                   personal_best_positions, personal_best_costs, sessionVars>>

\* one pass of "for i in range(self.num_particles)": particle i moves, its
\* path is decoded and priced, the personal and global bests are updated
PSOParticle ==
    /\ alg = "pso" /\ pc = "loop"
    /\ iteration < params.num_iterations
    /\ inner < params.num_particles
    /\ \E position \in PSO_Positions :
         LET i == inner + 1
             cost == calculate_cost(position_to_path(position))
         IN IF FLt(cost, personal_best_costs[i])
            THEN /\ personal_best_costs' = [personal_best_costs EXCEPT ![i] = cost]
                 /\ personal_best_positions' =
                        [personal_best_positions EXCEPT ![i] = position]
                 /\ IF FLt(cost, global_best_cost)
                    THEN /\ global_best_cost' = cost
                         /\ global_best_position' = position
                    ELSE UNCHANGED <<global_best_position, global_best_cost>>
            ELSE UNCHANGED psoVars
    /\ inner' = inner + 1
    /\ UNCHANGED <<envVars, pc, path, result, alg, params, iteration, current_path,
                   current_cost, best_path, best_cost, tabuVars, acoVars, saVars, gaVars, history, sessionVars>>

\* the end of one iteration
PSOEndIteration ==
    /\ alg = "pso" /\ pc = "loop"
    /\ iteration < params.num_iterations
    /\ inner = params.num_particles
    /\ history' = Appended(history, {"best_cost", "avg_cost", "diversity"})
    /\ iteration' = iteration + 1
    /\ inner' = 0
    /\ UNCHANGED <<envVars, pc, path, result, alg, params, current_path,
                   current_cost, best_path, best_cost, tabuVars, acoVars, saVars, gaVars,
                   psoVars, sessionVars>>

\* "convert best position to path" and the return
PSOReturn ==
    /\ alg = "pso" /\ pc = "loop"
    /\ iteration = params.num_iterations
    /\ best_path' = position_to_path(global_best_position)
    /\ best_cost' = global_best_cost
    /\ result' = [best_path |-> best_path', best_cost |-> global_best_cost]
    /\ pc' = "done"
    /\ UNCHANGED <<envVars, path, alg, params, iteration, inner, current_path,
                   current_cost, tabuVars, acoVars, saVars, gaVars, psoVars, history, sessionVars>>

NextPSO ==
    \/ PSOStart \/ PSOInitParticle \/ PSOGlobalBest
    \/ PSOParticle \/ PSOEndIteration \/ PSOReturn

\* a fresh optimizer, before optimize()
FreshOptimizer ==
    /\ pc = "start"
    /\ path = <<>>
    /\ result = [best_path |-> None, best_cost |-> Inf]
    /\ iteration = 0 /\ inner = 0
    /\ current_path = None /\ current_cost = Inf
    /\ best_path = None /\ best_cost = Inf
    /\ tabu_list = NoTable
    /\ neighbor = None /\ neighbor_cost = Inf /\ is_tabu = FALSE
    /\ best_neighbor_path = None /\ best_neighbor_cost = Inf
    /\ paths = <<>> /\ costs = <<>>
    /\ temperature = Fin(0)
    /\ population = <<>> /\ new_population = <<>> /\ attempts = 0
    /\ best_fitness = [kind |-> "zero", c |-> 0]
    /\ personal_best_positions = <<>> /\ personal_best_costs = <<>>
    /\ global_best_position = <<>> /\ global_best_cost = Inf
    /\ history = NoHistory
    /\ calls = 0

\* one long run of tabu search from 0 to 3 on the square, its costs set
InitTabu ==
    /\ graph = VariedGraph(EdgesSquare)
    /\ sp \in ShortestPathTables(graph)
    /\ source = 0 /\ destination = 3
    /\ weights = [delay |-> 1, reliability |-> 1, resource |-> 1]
    /\ network_generator = TRUE
    /\ alg = "tabu"
    /\ params = [num_iterations |-> LongRun, neighborhood_size |-> 2]
    /\ pheromone = NoTable
    /\ FreshOptimizer
    /\ other = NoInstance

SpecTabu == InitTabu /\ [][NextTabu]_vars

\* the graphs the optimizers run on, from 0 to 3
OptGraphs == {UniformGraph(EdgesT), VariedGraph(EdgesKite), UniformGraph(EdgesSplit),
              VariedGraph(EdgesSquare), SlowDirectGraph(EdgesKite)}

Params(a) ==
    IF a = "tabu"
    THEN [num_iterations : 0..MaxIterations, neighborhood_size : 1..MaxInner]
    ELSE IF a = "aco"
    THEN [num_iterations : 0..MaxIterations, num_ants : 1..MaxInner]
    ELSE IF a = "pso"
    THEN {p \in [num_iterations : 0..MaxIterations, num_particles : 1..MaxInner] :
             p.num_iterations * p.num_particles <= MaxWork}
    ELSE IF a = "ga"
    THEN {p \in [generations : 0..MaxIterations, population_size : 1..MaxPopulation,
                 elite_size : 0..1] :
             p.generations * p.population_size <= MaxWork}
    ELSE [num_iterations : 0..MaxIterations, iterations_per_temp : 1..MaxInner,
          initial_temp : {Fin(0), Fin(1000 * Scale)}]

\* any of the optimizers, constructed and about to run optimize(), with or
\* without set_network_generator() called before
Init ==
    /\ graph \in OptGraphs
    /\ sp \in ShortestPathTables(graph)
    /\ source = 0 /\ destination = 3
    /\ weights \in {w \in WeightSets : w.delay \in {0, MaxWeight}
                                       /\ w.reliability = 1 /\ w.resource = 1}
    /\ network_generator \in BOOLEAN
    /\ alg \in {"tabu", "aco", "sa", "ga", "pso"}
    /\ params \in Params(alg)
    /\ pheromone = IF alg = "aco" THEN initialize_pheromones(graph) ELSE NoTable
    /\ FreshOptimizer
    /\ other = NoInstance

Next == NextTabu \/ NextACO \/ NextSA \/ NextGA \/ NextPSO

Spec == Init /\ [][Next]_vars

-----------------------------------------------------------------------------
(* Two instances over one graph.  The variables hold the instance whose    *)
(* step runs next; the other one waits in "other" with all it owns: the    *)
(* attributes set by its constructor and the locals of its optimize().     *)
(* The graph and the shortest paths read from it are the same for both.    *)

\* everything the running instance owns
Instance ==
    [pc |-> pc, result |-> result, alg |-> alg, params |-> params,
     iteration |-> iteration, inner |-> inner, current_path |-> current_path,
     current_cost |-> current_cost, best_path |-> best_path, best_cost |-> best_cost,
     history |-> history, tabu_list |-> tabu_list, neighbor |-> neighbor,
     neighbor_cost |-> neighbor_cost, is_tabu |-> is_tabu,
     best_neighbor_path |-> best_neighbor_path,
     best_neighbor_cost |-> best_neighbor_cost, pheromone |-> pheromone, paths |-> paths,
     costs |-> costs, temperature |-> temperature, population |-> population,
     new_population |-> new_population, attempts |-> attempts,
     best_fitness |-> best_fitness, personal_best_positions |-> personal_best_positions,
     personal_best_costs |-> personal_best_costs,
     global_best_position |-> global_best_position,
     global_best_cost |-> global_best_cost, calls |-> calls]

\* an instance as its constructor leaves it
FreshInstance(a, ps) ==
    [pc |-> "start",
     result |-> [best_path |-> None, best_cost |-> Inf],
     alg |-> a,
     params |-> ps,
     iteration |-> 0,
     inner |-> 0,
     current_path |-> None,
     current_cost |-> Inf,
     best_path |-> None,
     best_cost |-> Inf,
     history |-> NoHistory,
     tabu_list |-> NoTable,
     neighbor |-> None,
     neighbor_cost |-> Inf,
     is_tabu |-> FALSE,
     best_neighbor_path |-> None,
     best_neighbor_cost |-> Inf,
     pheromone |-> IF a = "aco" THEN initialize_pheromones(graph) ELSE NoTable,
     paths |-> <<>>,
     costs |-> <<>>,
     temperature |-> Fin(0),
     population |-> <<>>,
     new_population |-> <<>>,
     attempts |-> 0,
     best_fitness |-> ZeroFitness,
     personal_best_positions |-> <<>>,
     personal_best_costs |-> <<>>,
     global_best_position |-> <<>>,
     global_best_cost |-> Inf,
     calls |-> 0]

\* the parameters of the instances that run side by side
PairParams(a) ==
    IF a = "tabu" THEN [num_iterations |-> 1, neighborhood_size |-> 1]
    ELSE IF a = "aco" THEN [num_iterations |-> 1, num_ants |-> 1]
    ELSE IF a = "pso" THEN [num_iterations |-> 1, num_particles |-> 1]
    ELSE IF a = "ga" THEN [generations |-> 1, population_size |-> 2, elite_size |-> 1]
    ELSE [num_iterations |-> 1, iterations_per_temp |-> 1, initial_temp |-> Fin(1000 * Scale)]

InitPair ==
    /\ graph = VariedGraph(EdgesSquare)
    /\ sp = ShortestPathTable(graph, <<0, 1, 2, 3>>)
    /\ source = 0 /\ destination = 3
    /\ weights = [delay |-> 1, reliability |-> 1, resource |-> 1]
    /\ network_generator = TRUE
    /\ alg \in {"tabu", "aco", "sa", "ga", "pso"}
    /\ params = PairParams(alg)
    /\ pheromone = IF alg = "aco" THEN initialize_pheromones(graph) ELSE NoTable
    /\ FreshOptimizer
    /\ \E a \in {"tabu", "aco", "sa", "ga", "pso"} :
         other = [id |-> 2, state |-> FreshInstance(a, PairParams(a))]

\* the scheduler takes the running instance off and puts the waiting one on
Switch ==
    /\ other.id # 0
    /\ other' = [id |-> 3 - other.id, state |-> Instance]
    /\ pc' = other.state.pc
    /\ result' = other.state.result
    /\ alg' = other.state.alg
    /\ params' = other.state.params
    /\ iteration' = other.state.iteration
    /\ inner' = other.state.inner
    /\ current_path' = other.state.current_path
    /\ current_cost' = other.state.current_cost
    /\ best_path' = other.state.best_path
    /\ best_cost' = other.state.best_cost
    /\ history' = other.state.history
    /\ tabu_list' = other.state.tabu_list
    /\ neighbor' = other.state.neighbor
    /\ neighbor_cost' = other.state.neighbor_cost
    /\ is_tabu' = other.state.is_tabu
    /\ best_neighbor_path' = other.state.best_neighbor_path
    /\ best_neighbor_cost' = other.state.best_neighbor_cost
    /\ pheromone' = other.state.pheromone
    /\ paths' = other.state.paths
    /\ costs' = other.state.costs
    /\ temperature' = other.state.temperature
    /\ population' = other.state.population
    /\ new_population' = other.state.new_population
    /\ attempts' = other.state.attempts
    /\ best_fitness' = other.state.best_fitness
    /\ personal_best_positions' = other.state.personal_best_positions
    /\ personal_best_costs' = other.state.personal_best_costs
    /\ global_best_position' = other.state.global_best_position
    /\ global_best_cost' = other.state.global_best_cost
    /\ calls' = other.state.calls
    /\ UNCHANGED <<envVars, path>>

NextPair == Next \/ Switch

SpecPair == InitPair /\ [][NextPair]_vars

-----------------------------------------------------------------------------
(* optimize() called again on the same instance *)

\* the caller calls optimize() once more: the locals of the finished call are
\* gone, the attributes of the instance are what the call left
OptimizeAgain ==
    /\ pc = "done" /\ alg # "none"
    /\ calls < MaxCalls
    /\ calls' = calls + 1
    /\ pc' = "start"
    /\ iteration' = 0 /\ inner' = 0
    /\ current_path' = None /\ current_cost' = Inf
    /\ best_path' = None /\ best_cost' = Inf
    /\ history' = NoHistory
    /\ neighbor' = None /\ neighbor_cost' = Inf /\ is_tabu' = FALSE
    /\ best_neighbor_path' = None /\ best_neighbor_cost' = Inf
    /\ paths' = <<>> /\ costs' = <<>>
    /\ temperature' = Fin(0)
    /\ population' = <<>> /\ new_population' = <<>> /\ attempts' = 0
    /\ best_fitness' = ZeroFitness
    /\ personal_best_positions' = <<>> /\ personal_best_costs' = <<>>
    /\ global_best_position' = <<>> /\ global_best_cost' = Inf
    /\ UNCHANGED <<envVars, path, result, alg, params, tabu_list, pheromone, other>>

InitAgain ==
    /\ Init
    /\ graph = VariedGraph(EdgesSquare)
    /\ weights.delay = 1
    /\ network_generator

NextAgain == Next \/ OptimizeAgain

SpecAgain == InitAgain /\ [][NextAgain]_vars

-----------------------------------------------------------------------------
(* A genetic algorithm on six nodes with one cheap path *)

\* Six nodes; 0-1-2-3 is the only path from 0 to 3 over cheap links, every
\* other link (the direct link 0-3 and the detour 0-4-5-3) is very slow.
CheapEdges == {Edge(0, 1), Edge(1, 2), Edge(2, 3)}
DearEdges == {Edge(0, 3), Edge(0, 4), Edge(4, 5), Edge(3, 5)}

CheapPathGraph ==
    [nodes |-> 0..5, edges |-> CheapEdges \cup DearEdges,
     processing_delay |-> [n \in 0..5 |-> Scale],
     node_reliability |-> [n \in 0..5 |-> RelOne],
     delay |-> [e \in CheapEdges \cup DearEdges |->
                   IF e \in CheapEdges THEN Scale ELSE 1000 * Scale],
     edge_reliability |-> [e \in CheapEdges \cup DearEdges |-> RelOne],
     bandwidth |-> [e \in CheapEdges \cup DearEdges |-> 500]]

InitCheapPath ==
    /\ graph = CheapPathGraph
    /\ sp = ShortestPathTable(graph, <<0, 1, 2, 3, 4, 5>>)
    /\ source = 0 /\ destination = 3
    /\ weights = [delay |-> 1, reliability |-> 1, resource |-> 1]
    /\ network_generator = TRUE
    /\ alg = "ga"
    /\ params \in [generations : 0..LongRun, population_size : 1..MaxPopulation,
                   elite_size : 0..1]
    /\ pheromone = NoTable
    /\ FreshOptimizer
    /\ other = NoInstance

SpecCheapPath == InitCheapPath /\ [][NextGA]_vars

-----------------------------------------------------------------------------
(* The genetic algorithm under any weights *)

\* A genetic algorithm with a cost source, under every choice of weights, on
\* a graph all of whose nodes and links are fully reliable and on one whose
\* direct link is the shortest path.
InitGenetic ==
    /\ graph \in {UniformGraph(EdgesSquare), VariedGraph(EdgesKite)}
    /\ sp = ShortestPathTable(graph, <<0, 1, 2, 3>>)
    /\ source = 0 /\ destination = 3
    /\ weights \in WeightSets
    /\ network_generator = TRUE
    /\ alg = "ga"
    /\ params \in Params("ga")
    /\ pheromone = NoTable
    /\ FreshOptimizer
    /\ other = NoInstance

SpecGenetic == InitGenetic /\ [][NextGA]_vars

-----------------------------------------------------------------------------
(* The ant colony under any weights *)

\* a graph whose link 1-3 never delivers: its reliability is 0.0
DeadLinkGraph(E) ==
    [nodes |-> Nodes, edges |-> E,
     processing_delay |-> [n \in Nodes |-> Scale],
     node_reliability |-> [n \in Nodes |-> RelOne],
     delay |-> [e \in E |-> Scale],
     edge_reliability |-> [e \in E |-> IF e = Edge(1, 3) THEN RelZero ELSE RelOne],
     bandwidth |-> [e \in E |-> 1000]]

\* An ant colony with a cost source, under every choice of weights: paths
\* can cost 0 (all weights 0), inf (a dead link) or nan (a dead link under
\* reliability weight 0); on the split graph no ant finds a path.
InitColony ==
    /\ graph \in {UniformGraph(EdgesSquare), DeadLinkGraph(EdgesSquare),
                  UniformGraph(EdgesSplit)}
    /\ sp = ShortestPathTable(graph, <<0, 1, 2, 3>>)
    /\ source = 0 /\ destination = 3
    /\ weights \in WeightSets
    /\ network_generator = TRUE
    /\ alg = "aco"
    /\ params \in Params("aco")
    /\ pheromone = initialize_pheromones(graph)
    /\ FreshOptimizer
    /\ other = NoInstance

SpecColony == InitColony /\ [][NextACO]_vars

-----------------------------------------------------------------------------
(* The particle swarm from another source *)

\* A particle swarm with a cost source that routes from node 0 or from node
\* 1: from node 1 a path can pass through node 0, whose coordinate 0.0
\* _position_to_path drops.
InitSwarm ==
    /\ graph \in {VariedGraph(EdgesKite), VariedGraph(EdgesSquare)}
    /\ sp = ShortestPathTable(graph, <<0, 1, 2, 3>>)
    /\ source \in {0, 1} /\ destination = 3
    /\ weights = [delay |-> 1, reliability |-> 1, resource |-> 1]
    /\ network_generator = TRUE
    /\ alg = "pso"
    /\ params \in Params("pso")
    /\ pheromone = NoTable
    /\ FreshOptimizer
    /\ other = NoInstance

SpecSwarm == InitSwarm /\ [][NextPSO]_vars

-----------------------------------------------------------------------------
(* The segment replacement of simulated annealing *)

\* the paths of more than three nodes the annealer can stand on: simple
\* paths of the graph
SegmentPaths ==
    {q \in UNION {DistinctFrom(u, graph.nodes) : u \in graph.nodes} :
        /\ Len(q) > 3
        /\ \A i \in 1..(Len(q) - 1) : has_edge(graph, q[i], q[i + 1])}

InitSegment ==
    /\ graph = CheapPathGraph
    /\ sp = ShortestPathTable(graph, <<0, 1, 2, 3, 4, 5>>)
    /\ path \in SegmentPaths
    /\ source = path[1] /\ destination = Last(path)
    /\ weights = [delay |-> 1, reliability |-> 1, resource |-> 1]
    /\ network_generator = TRUE
    /\ pc = "call"
    /\ result = [idx1 |-> 0, idx2 |-> 0, new_path |-> <<>>]
    /\ NoOptimizer

\* "elif modification == 2 and len(new_path) > 3" of _get_neighbor on the
\* current path, up to the call of _repair_path
SegmentCall ==
    /\ pc = "call"
    /\ \E idx1 \in 1..(Len(path) - 3) :
         \E idx2 \in (idx1 + 2)..(Len(path) - 1) :
            result' = [idx1 |-> idx1, idx2 |-> idx2,
                       new_path |-> SA_replace_segment(path, idx1, idx2)]
    /\ pc' = "return"
    /\ UNCHANGED <<envVars, path, optVars>>

SpecSegment == InitSegment /\ [][SegmentCall]_vars

-----------------------------------------------------------------------------
(* Paths *)

RECURSIVE SumSeq(_)
SumSeq(s) == IF s = <<>> THEN 0 ELSE Head(s) + SumSeq(Tail(s))

NoRepeat(p) == \A i, j \in 1..Len(p) : i # j => p[i] # p[j]
Linked(g, p) == Len(p) >= 2 /\ \A i \in 1..(Len(p) - 1) : has_edge(g, p[i], p[i + 1])

\* a Path of the data model: from s to d, simple, along edges
IsValidPath(g, s, d, p) ==
    /\ Len(p) >= 2
    /\ p[1] = s
    /\ p[Len(p)] = d
    /\ NoRepeat(p)
    /\ \A i \in 1..(Len(p) - 1) : has_edge(g, p[i], p[i + 1])

EdgeAt(p, i) == Edge(p[i], p[i + 1])

-----------------------------------------------------------------------------
(* Claims on the cost model, under SpecCost *)

Returned == pc = "return"
AllWeightsPositive == weights.delay > 0 /\ weights.reliability > 0 /\ weights.resource > 0

C9_CostUsesOneMinusReliability ==
    (Returned /\ IsValidPath(graph, source, destination, path)) =>
        result.total_cost =
            Fin(weights.delay * result.metrics.total_delay.v
                + weights.reliability * OneMinus(result.metrics.total_reliability).v
                + weights.resource * result.metrics.resource_cost.v)

\* -ln of the product of the reliabilities of the nodes and edges of p,
\* as the sum of the -ln of each
SumNegLog(g, p) ==
    SumSeq([i \in 1..Len(p) |-> NegLog(g.node_reliability[p[i]]).v])
    + SumSeq([i \in 1..(Len(p) - 1) |-> NegLog(g.edge_reliability[EdgeAt(p, i)]).v])

\* C9 (amended): for a valid path the cost is
\* w_delay * total_delay + w_reliability * (-ln total_reliability)
\* + w_resource * resource_cost.
C9_CostUsesNegLogReliability ==
    (Returned /\ IsValidPath(graph, source, destination, path)) =>
        result.total_cost =
            Fin(weights.delay * result.metrics.total_delay.v
                + weights.reliability * SumNegLog(graph, path)
                + weights.resource * result.metrics.resource_cost.v)

\* a valid path of reliability below 1 was priced with a positive reliability weight
C9_Witness ==
    /\ Returned
    /\ IsValidPath(graph, source, destination, path)
    /\ result.metrics.total_reliability.den > 1
    /\ weights.reliability > 0

\* C10: for a valid path total_delay is the sum of the delays of its edges plus
\* the processing_delay of every node strictly between the first and the last.
C10_TotalDelay ==
    (Returned /\ IsValidPath(graph, source, destination, path)) =>
        result.metrics.total_delay =
            Fin(SumSeq([i \in 1..(Len(path) - 1) |-> graph.delay[EdgeAt(path, i)]])
                + SumSeq([i \in 1..(Len(path) - 2) |->
                            graph.processing_delay[path[i + 1]]]))

\* a valid path with an intermediate node whose endpoints have processing delays
C10_Witness ==
    /\ Returned
    /\ IsValidPath(graph, source, destination, path)
    /\ Len(path) >= 3
    /\ graph.processing_delay[source] > 0
    /\ graph.processing_delay[destination] > 0
    /\ graph.processing_delay[path[2]] > 0

-----------------------------------------------------------------------------
(* Claims on path repair, under SpecRepair *)

Connected(t) == \A pr \in DOMAIN t : t[pr] # NoPath

\* the sequence has a pair of consecutive nodes with no path between them,
\* or no path from its last node to the destination
BridgeMissing(q) ==
    \/ \E i \in 1..(Len(q) - 1) : sp[<<q[i], q[i + 1]>>] = NoPath
    \/ sp[<<Last(q), destination>>] = NoPath

\* C3: over a connected graph, _repair_path of GA, SA and tabu search returns a
\* valid path for any input sequence: from source to destination, no repeated
\* node, every consecutive pair an edge.
C3_RepairReturnsValidPath ==
    (Returned /\ Connected(sp) /\ path # <<>>) =>
        /\ IsValidPath(graph, source, destination, result.ga)
        /\ IsValidPath(graph, source, destination, result.sa)
        /\ IsValidPath(graph, source, destination, result.tabu)

\* C4 (as stated): for every graph, source, destination and input sequence the
\* _repair_path of GA, PSO, SA and tabu search return the same path.
C4_RepairsAgree ==
    (Returned /\ path # <<>>) =>
        /\ result.ga = result.pso
        /\ result.ga = result.sa
        /\ result.ga = result.tabu

\* C4 (amended): on a connected graph, for an input that starts at the source,
\* ends at the destination and repeats no node, the four _repair_path return
\* the same path.
C4_RepairsAgreeOnCleanInput ==
    (/\ Returned
     /\ Connected(sp)
     /\ Len(path) >= 2 /\ path[1] = source /\ Last(path) = destination
     /\ NoRepeat(path)) =>
        /\ result.ga = result.pso
        /\ result.ga = result.sa
        /\ result.ga = result.tabu

\* a clean input with a gap was repaired, by a bridge, to something else
C4_Witness ==
    /\ Returned
    /\ Connected(sp)
    /\ Len(path) >= 3 /\ path[1] = source /\ Last(path) = destination
    /\ NoRepeat(path)
    /\ ~Linked(graph, path)
    /\ result.ga # path
    /\ result.ga = result.tabu /\ result.ga = result.pso /\ result.ga = result.sa

\* C8: when a bridge between two consecutive nodes, or from the last node to
\* the destination, cannot be found, _repair_path (GA, SA, tabu search) returns
\* the global shortest source-destination path, or [source, destination] when
\* there is none; it never raises and returns no other sequence.
C8_RepairFallsBack ==
    (Returned /\ path # <<>>) =>
        /\ BridgeMissing(Dedup(ForceEndpoints(path), <<>>)) =>
              (result.ga = ShortestOrPair /\ (Len(path) >= 2 => result.sa = ShortestOrPair))
        /\ BridgeMissing(LoopRemoval(ForceEndpoints(path), <<>>)) =>
              result.tabu = ShortestOrPair

-----------------------------------------------------------------------------
(* The optimize() loops *)

Done == pc = "done"
Empty(p) == p = <<>> \/ p = None

\* C1: on a graph in which source and destination are connected, every
\* non-empty best_path returned by optimize() starts at the source, ends at
\* the destination, repeats no node and follows edges of the graph.
C1_BestPathIsValid ==
    (Done /\ has_path(sp, source, destination) /\ ~Empty(result.best_path)) =>
        IsValidPath(graph, source, destination, result.best_path)

\* the iteration at which the path was last recorded tabu
RecordedAt(p) == tabu_list[p] - tabu_tenure

\* C5: a path recorded tabu at iteration t is, when aspiration does not
\* apply, ineligible as a candidate at the iterations t+1 .. t+tabu_tenure and
\* eligible again at iteration t+tabu_tenure+1.
C5_TabuForTenure ==
    (/\ alg = "tabu" /\ pc = "loop"
     /\ neighbor # None
     /\ neighbor \in DOMAIN tabu_list
     /\ ~FLt(neighbor_cost, best_cost)) =>
        /\ iteration \in (RecordedAt(neighbor) + 1)..(RecordedAt(neighbor) + tabu_tenure)
              => is_tabu
        /\ iteration = RecordedAt(neighbor) + tabu_tenure + 1 => ~is_tabu

\* C6: whenever optimize() returns an empty best_path, the best_cost returned
\* with it is +inf, also when set_network_generator was never called.
C6_EmptyPathHasInfiniteCost ==
    (Done /\ Empty(result.best_path)) => result.best_cost = Inf

\* C7: when source and destination are not connected, optimize() returns an
\* empty path together with +inf cost and does not raise.
C7_DisconnectedReturnsEmpty ==
    (Done /\ network_generator /\ ~has_path(sp, source, destination)) =>
        /\ result.best_path # Raised
        /\ Empty(result.best_path)
        /\ result.best_cost = Inf

-----------------------------------------------------------------------------
(* Ant colony: the pheromone update *)

\* the pheromone update of this step: the iteration ends with ant paths found
PheromoneCycle ==
    alg = "aco" /\ pc = "loop" /\ iteration' = iteration + 1 /\ paths # <<>>

\* the directed edge lies, in either direction, on no ant path of this iteration
Untouched(e) == \A i \in 1..Len(paths) : Traversals(paths[i], e[1], e[2]) = 0

\* level b is exactly half of level a
IsHalf(a, b) == 2 * b.num * a.den = a.num * b.den

\* C11: after one evaporation+deposit cycle with evaporation_rate = 0.5, the
\* pheromone of every edge that lies on no ant path of that iteration is
\* exactly half of its value before the cycle.
C11_UntouchedEdgeHalved ==
    [][PheromoneCycle =>
         \A e \in DOMAIN pheromone :
            Untouched(e) => IsHalf(pheromone[e], pheromone'[e])]_vars

\* after the first cycle one edge holds 0.5 and another holds a deposit
C11_Witness ==
    /\ alg = "aco" /\ iteration = 1
    /\ \E e \in DOMAIN pheromone : pheromone[e] = Rel(Scale \div 2, 1)
    /\ \E e \in DOMAIN pheromone : pheromone[e].num > Scale * pheromone[e].den

-----------------------------------------------------------------------------
(* Simulated annealing: acceptance *)

\* C12: _acceptance_probability returns 1.0 whenever new_cost < current_cost,
\* at every temperature, T <= 0 included, so that a neighbor that improves on
\* the current solution is always accepted.
C12_ImprovingAlwaysAccepted ==
    (alg = "sa" /\ pc = "loop") =>
        \A new_path \in SA_get_neighbor(current_path) :
           FLt(calculate_cost(new_path), current_cost) =>
              /\ acceptance_probability(current_cost, calculate_cost(new_path),
                                        temperature) = "one"
              /\ Accepts(acceptance_probability(current_cost, calculate_cost(new_path),
                                                temperature)) = {TRUE}

\* at temperature 0 the search has moved to a cheaper path than it started from
C12_Witness ==
    /\ alg = "sa" /\ pc = "loop"
    /\ temperature = Fin(0)
    /\ inner > 0
    /\ FLt(current_cost, calculate_cost(get_initial_solution))

-----------------------------------------------------------------------------
(* Cost model: bandwidth and reliability *)

\* the graph with the bandwidth of edge e set to b, all else as it was
WithBandwidth(g, e, b) == [g EXCEPT !.bandwidth[e] = b]

\* some larger bandwidths: one more, twice and ten times as much
RaisedBandwidths(b) == {b + 1, 2 * b, 10 * b}

OnPath(p, e) == \E i \in 1..(Len(p) - 1) : EdgeAt(p, i) = e

\* C13: for a path that uses an edge, a larger bandwidth on that edge, with
\* every other attribute as it was, gives a strictly smaller resource_cost.
C13_BandwidthLowersResourceCost ==
    (Returned /\ Linked(graph, path)) =>
        \A e \in graph.edges :
           OnPath(path, e) =>
              \A b \in RaisedBandwidths(graph.bandwidth[e]) :
                 FLt(get_path_metrics(WithBandwidth(graph, e, b), path).resource_cost,
                     result.metrics.resource_cost)

\* a valid path of two edges with different bandwidths was priced
C13_Witness ==
    /\ Returned
    /\ IsValidPath(graph, source, destination, path)
    /\ Len(path) = 3
    /\ graph.bandwidth[EdgeAt(path, 1)] # graph.bandwidth[EdgeAt(path, 2)]
    /\ IsFin(result.metrics.resource_cost)

\* every node and every edge of the path has reliability 1.0
AllReliable(g, p) ==
    /\ \A i \in 1..Len(p) : g.node_reliability[p[i]] = RelOne
    /\ \A i \in 1..(Len(p) - 1) : g.edge_reliability[EdgeAt(p, i)] = RelOne

\* C14: for a valid path all of whose node and edge reliabilities are 1.0,
\* the reliability cost term of calculate_total_cost is 0: the cost is the
\* delay term plus the resource term.
C14_CertainPathCostsNothing ==
    (Returned /\ IsValidPath(graph, source, destination, path)
              /\ AllReliable(graph, path)) =>
        /\ reliability_cost(result.metrics) = Fin(0)
        /\ FMul(weights.reliability, reliability_cost(result.metrics)) = Fin(0)
        /\ result.total_cost = FAdd(FMul(weights.delay, result.metrics.total_delay),
                                    FMul(weights.resource, result.metrics.resource_cost))

\* a valid path of reliability 1.0 was priced with the reliability weight set
C14_Witness ==
    /\ Returned
    /\ IsValidPath(graph, source, destination, path)
    /\ AllReliable(graph, path)
    /\ Len(path) >= 3
    /\ weights.reliability > 0
    /\ IsFin(result.total_cost) /\ result.total_cost.v > 0

-----------------------------------------------------------------------------
(* The graph is only read *)

\* C15: no step of any optimize() changes the graph: its node set, its edge
\* set and every node and edge attribute are after the step what they were
\* before it; the repairs, the neighbor generation, the ant walks and the
\* pheromone update are all parts of these steps.
C15_GraphUnchanged == [][graph' = graph]_vars

\* an ant colony run that has changed its pheromone levels and returned
C15_Witness ==
    /\ alg = "aco" /\ pc = "done" /\ network_generator
    /\ iteration > 0
    /\ pheromone # initialize_pheromones(graph)
    /\ graph \in OptGraphs


-----------------------------------------------------------------------------
(* Instances do not reach into each other *)

\* C16: with two instances interleaved over one graph, a step of the running
\* instance (any step but the scheduler's) leaves everything the waiting
\* instance owns as it was: its pheromone map, population, swarm, tabu map,
\* best-so-far and every other attribute and local; and it leaves the graph
\* as it was.  The waiting instance therefore goes on from exactly the state
\* in which it stopped, as it would running alone.
C16_WaitingInstanceUntouched ==
    [][other'.id = other.id => (other' = other /\ graph' = graph /\ sp' = sp)]_vars

\* two ant colonies have both run and returned, with different pheromone maps
C16_Witness ==
    /\ other.id # 0
    /\ alg = "aco" /\ other.state.alg = "aco"
    /\ pc = "done" /\ other.state.pc = "done"
    /\ pheromone # initialize_pheromones(graph)
    /\ other.state.pheromone # initialize_pheromones(graph)
    /\ pheromone # other.state.pheromone


-----------------------------------------------------------------------------
(* A second call *)

\* C17: a call of optimize() on an instance that has run optimize() before
\* starts from the search state a fresh instance starts from: an empty tabu
\* map, every pheromone level 1.0.
C17_SecondCallStartsFresh ==
    (pc = "start" /\ calls > 0) =>
        /\ tabu_list = NoTable
        /\ alg = "aco" => pheromone = initialize_pheromones(graph)


-----------------------------------------------------------------------------
(* Termination and the trace *)

\* the fixed budget of the running optimizer
Budget == IF alg = "ga" THEN params.generations ELSE params.num_iterations

\* the lists of the trace each optimize() builds
TraceLists ==
    IF alg = "tabu" THEN {"best_cost", "current_cost"}
    ELSE IF alg = "aco" THEN {"best_cost", "avg_cost", "num_ants_succeeded"}
    ELSE IF alg = "sa" THEN {"best_cost", "current_cost", "temperature", "acceptance_rate"}
    ELSE IF alg = "ga" THEN {"best_fitness", "avg_fitness", "diversity"}
    ELSE {"best_cost", "avg_cost", "diversity"}

\* the call has gone round its loop exactly Budget times and every list of
\* its trace has one record per round
SpentBudget ==
    /\ iteration = Budget
    /\ DOMAIN history = TraceLists
    /\ \A k \in DOMAIN history : history[k] = Budget

\* C18 as stated: whenever optimize() has returned, it has spent exactly its
\* budget and each trace list holds one record per iteration of it.
C18_ReturnsAfterBudget == Done => SpentBudget

\* optimize() runs its loop: GA always, the others once a cost source is set
RunsLoop == alg = "ga" \/ network_generator

\* the size of the inner loop of the running optimizer
InnerSize ==
    IF alg = "tabu" THEN params.neighborhood_size
    ELSE IF alg = "aco" THEN params.num_ants
    ELSE IF alg = "sa" THEN params.iterations_per_temp
    ELSE IF alg = "ga" THEN params.population_size
    ELSE params.num_particles

\* the inner loops stay within their bounds
InnerLoopsBounded ==
    /\ iteration <= Budget
    /\ alg = "ga" => /\ attempts <= InnerSize * 10
                     /\ Len(population) <= InnerSize
                     /\ Len(new_population) <= InnerSize
    /\ alg # "ga" => inner <= InnerSize
    /\ alg = "aco" => \A i \in 1..Len(paths) :
                         Len(paths[i]) <= 3 * Cardinality(graph.nodes) + 1

\* A bound on the steps optimize() still takes: one step per pass of an
\* inner loop, one per end of an iteration, one for the return.
StepsLeft ==
    LET size == InnerSize
        rounds == Budget - iteration
        room(n) == IF n < size THEN size - n ELSE 0
    IN IF Done THEN 0
       ELSE IF alg = "ga"
       THEN IF pc = "start" THEN Budget * (size + 2) + 11 * size + 3
            ELSE IF pc = "init"
            THEN Budget * (size + 2) + 2 + (10 * size - attempts) + room(Len(population))
            ELSE IF pc = "loop" THEN rounds * (size + 2) + 1
            ELSE (rounds - 1) * (size + 2) + 2 + room(Len(new_population))
       ELSE IF pc = "start" THEN Budget * (size + 1) + size + 3
            ELSE IF pc = "init" THEN Budget * (size + 1) + 2 + (size - inner)
            ELSE rounds * (size + 1) - inner + 1

\* optimize() has a next step to take: the guard of one of its statements
\* holds and the random choice it makes has an outcome
CanStep ==
    IF pc = "start" THEN TRUE
    ELSE IF alg = "ga"
    THEN IF pc = "init"
         THEN Len(population) < InnerSize /\ attempts < InnerSize * 10
                  => GA_generate_random_path # {}
         ELSE IF pc = "loop" THEN iteration <= Budget
         ELSE Len(new_population) < InnerSize
                  => \E parent1 \in GA_selection(population, Fitnesses(population)),
                        parent2 \in GA_selection(population, Fitnesses(population)) :
                        GA_crossover(parent1, parent2) # {}
    ELSE IF pc = "init"
    THEN /\ inner <= InnerSize
         /\ inner < InnerSize => PSO_generate_random_path # {}
    ELSE /\ iteration <= Budget /\ inner <= InnerSize
         /\ (iteration < Budget /\ inner < InnerSize) =>
               IF alg = "tabu" THEN Tabu_generate_neighbor(current_path) # {}
               ELSE IF alg = "aco" THEN construct_path # {}
               ELSE IF alg = "sa" THEN SA_get_neighbor(current_path) # {}
               ELSE PSO_Positions # {}

\* C18, amended: every optimize() call returns: each of its steps brings the
\* return nearer and it is never stuck before it; a call that runs its loop
\* returns after exactly its budget with one record per iteration in every
\* trace list, and the other calls (ACO, PSO, SA and tabu search without a
\* cost source) return at once with the empty trace {}; no inner loop
\* (population initialisation, offspring filling, ant walk, candidates,
\* moves, particles) goes beyond its bound.
C18_TerminatesOnBudget ==
    /\ [][StepsLeft' < StepsLeft]_vars
    /\ [](StepsLeft >= 0 /\ (Done \/ CanStep))
    /\ [](Done => IF RunsLoop THEN SpentBudget
                  ELSE iteration = 0 /\ history = NoHistory)
    /\ []InnerLoopsBounded

\* a genetic algorithm has run two generations and returned; a population of
\* two was asked for
C18_Witness ==
    /\ Done /\ alg = "ga"
    /\ params.generations = 2 /\ params.population_size = 2
    /\ iteration = 2
    /\ history = [best_fitness |-> 2, avg_fitness |-> 2, diversity |-> 2]


-----------------------------------------------------------------------------
(* Convergence *)

\* C19: on the six-node graph whose only cheap path from 0 to 3 is 0-1-2-3,
\* a run with many iterations has best_path = [0,1,2,3] in the end and
\* returns it.
C19_ReturnsCheapPath ==
    (Done /\ Budget = LongRun) =>
        /\ best_path = <<0, 1, 2, 3>>
        /\ result.best_path = <<0, 1, 2, 3>>

\* what keeps the genetic algorithm from it: every individual it ever holds
\* is the direct path [0,3], which no insertion, crossover or mutation changes
OnlyDirectPath ==
    /\ \A i \in 1..Len(population) : population[i] = <<0, 3>>
    /\ \A i \in 1..Len(new_population) : new_population[i] = <<0, 3>>
    /\ best_path \in {None, <<0, 3>>}


-----------------------------------------------------------------------------
(* The individuals of the genetic algorithm *)

\* C20: in the genetic algorithm on a connected graph every individual of the
\* population, the initial one included, is a valid path: it starts at the
\* source, ends at the destination, repeats no node and each of its links is
\* an edge of the graph.
C20_PopulationValid ==
    (alg = "ga" /\ Connected(sp)) =>
        \A i \in 1..Len(population) :
            IsValidPath(graph, source, destination, population[i])


-----------------------------------------------------------------------------
(* The best solution of the genetic algorithm *)

\* C21: the genetic algorithm returns the best solution it ever evaluated:
\* once a generation has been evaluated, best_path is an individual and none
\* of the individuals of that generation costs less than it, under any
\* weights >= 0 (those under which a valid path costs 0 included); after one
\* generation or more the call returns best_path with its cost.
C21_ReturnsBestEver ==
    /\ (alg = "ga" /\ pc = "offspring") =>
          /\ best_path # None
          /\ \A i \in 1..Len(population) :
                ~FLt(calculate_total_cost(graph, population[i], weights),
                     calculate_total_cost(graph, best_path, weights))
    /\ (alg = "ga" /\ Done /\ Budget >= 1 /\ result.best_path # Raised) =>
          /\ result.best_path = best_path
          /\ best_path # None
          /\ result.best_cost = calculate_total_cost(graph, best_path, weights)


-----------------------------------------------------------------------------
(* Elitism *)

\* C22: in every generation, whatever elite_size E with 0 <= E <= P, the new
\* population starts as unchanged copies of the E fittest individuals of the
\* current one, the other P - E places are left to the offspring, and the
\* next population has exactly P individuals.
C22_EliteThenOffspring ==
    [][/\ (alg = "ga" /\ pc = "loop" /\ pc' = "offspring"
              /\ params.elite_size <= params.population_size) =>
             \E o \in ArgSort(Fitnesses(population)) :
                new_population' =
                    [i \in 1..params.elite_size |->
                        population[o[Len(population) - params.elite_size + i]]]
       /\ (alg = "ga" /\ pc = "offspring" /\ pc' = "loop") =>
             Len(population') = params.population_size]_vars


-----------------------------------------------------------------------------
(* The move of tabu search *)

\* a pass of the candidate loop of tabu search, and the end of an iteration
ExaminesCandidate == alg = "tabu" /\ pc = "loop" /\ inner' = inner + 1
EndsIteration == alg = "tabu" /\ pc = "loop" /\ iteration' = iteration + 1

\* the candidate just examined may be moved to: it is not tabu, or it is tabu
\* and costs less than the best solution so far
Eligible ==
    \/ ~Tabu_is_tabu(tabu_list, neighbor', iteration)
    \/ FLt(neighbor_cost', best_cost)

Priced == FLt(neighbor_cost', Inf)

-----------------------------------------------------------------------------
(* Ant colony: the update rule *)

\* what the ants k, k + 1, ... of this iteration lay on the directed edge e:
\* Q / cost for each step an ant path of finite positive cost takes along the
\* edge, in either direction
RECURSIVE DepositsFrom(_, _)
DepositsFrom(k, e) ==
    IF k > Len(paths) THEN 0
    ELSE (IF costs[k].kind = "fin" /\ costs[k].v > 0
          THEN Cardinality({i \in 1..(Len(paths[k]) - 1) :
                               \/ <<paths[k][i], paths[k][i + 1]>> = e
                               \/ <<paths[k][i + 1], paths[k][i]>> = e})
               * ((Q * Scale * Scale) \div costs[k].v)
          ELSE 0)
         + DepositsFrom(k + 1, e)

\* C24: after each pheromone update the level of every directed edge is
\* (1 - evaporation_rate) times its level before plus Q / cost for each
\* traversal of the edge, in either direction, by an ant path of this
\* iteration with finite positive cost; the other ants deposit nothing.
C24_UpdateRule ==
    [][PheromoneCycle =>
         /\ DOMAIN pheromone' = DOMAIN pheromone
         /\ \A e \in DOMAIN pheromone :
               pheromone'[e].num * pheromone[e].den * Scale =
                  pheromone'[e].den
                     * ((Scale - evaporation_rate) * pheromone[e].num
                        + DepositsFrom(1, e) * pheromone[e].den * Scale)]_vars

\* on the graph with the dead link one iteration of two ants is over: the
\* link 0-2 holds half its first level and the deposit of one ant, so the
\* other ant went over the dead link at infinite cost and laid nothing
C24_Witness ==
    /\ alg = "aco" /\ iteration = 1 /\ params.num_ants = 2
    /\ graph = DeadLinkGraph(EdgesSquare)
    /\ weights = [delay |-> 1, reliability |-> 1, resource |-> 1]
    /\ pheromone[<<0, 1>>] = Rel(Scale \div 2, 1)
    /\ pheromone[<<0, 2>>] =
          Rel(Scale \div 2
              + (Q * Scale * Scale) \div calculate_total_cost(graph, <<0, 2, 3>>, weights).v,
              1)


-----------------------------------------------------------------------------
(* Ant colony: evaporation *)

\* C25: at the end of every iteration of the ant colony, after all ants have
\* attempted, every pheromone level is multiplied by (1 - evaporation_rate)
\* before the deposits of the iteration are added, also in an iteration in
\* which no ant produced a path.
C25_EvaporatesEveryIteration ==
    [][(alg = "aco" /\ pc = "loop" /\ iteration' = iteration + 1) =>
         \A e \in DOMAIN pheromone :
            pheromone'[e].num * pheromone[e].den * Scale =
               pheromone'[e].den
                  * ((Scale - evaporation_rate) * pheromone[e].num
                     + DepositsFrom(1, e) * pheromone[e].den * Scale)]_vars


-----------------------------------------------------------------------------
(* The cost returned with the path *)

\* C26: whenever optimize() of any of the algorithms returns a path that is
\* not empty, the cost it returns with it is calculate_total_cost of that
\* path under the weights; for the particle swarm: the path decoded from the
\* global best position costs the global best cost.
C26_ReturnedCostIsCostOfPath ==
    (Done /\ result.best_path \notin {None, Raised, <<>>}) =>
        result.best_cost = calculate_total_cost(graph, result.best_path, weights)


-----------------------------------------------------------------------------
(* What the segment replacement keeps *)

\* C27: the segment replacement of simulated annealing replaces only the
\* chosen segment: in the sequence handed to the repair the nodes of the
\* current path before the first chosen position stand unchanged at the front
\* and the nodes after the second chosen position stand unchanged at the end.
C27_KeepsPrefixAndSuffix ==
    pc = "return" =>
        LET kept == Len(path) - (result.idx2 + 1)
            n == Len(result.new_path)
        IN /\ n >= result.idx1 + kept
           /\ SubSeq(result.new_path, 1, result.idx1) = SubSeq(path, 1, result.idx1)
           /\ SubSeq(result.new_path, n - kept + 1, n)
                 = SubSeq(path, result.idx2 + 2, Len(path))


-----------------------------------------------------------------------------
(* The aspiration criterion *)

\* C28: in one optimize() run of a freshly constructed tabu search the
\* aspiration criterion never admits a candidate: a candidate examined while
\* its tabu entry is active does not cost less than the best solution so far,
\* and stays tabu.
C28_AspirationNeverAdmits ==
    (alg = "tabu" /\ pc = "loop" /\ neighbor # None
        /\ Tabu_is_tabu(tabu_list, neighbor, iteration)) =>
        /\ ~FLt(neighbor_cost, best_cost)
        /\ is_tabu

\* a candidate has been examined whose tabu entry, made in an earlier
\* iteration of this run, is still active
C28_Witness ==
    /\ alg = "tabu" /\ pc = "loop" /\ calls = 0
    /\ iteration > 1 /\ inner > 0
    /\ neighbor # None /\ neighbor # current_path
    /\ Tabu_is_tabu(tabu_list, neighbor, iteration)
    /\ is_tabu


-----------------------------------------------------------------------------
(* The best so far *)

\* Python's x <= y on floats: False as soon as one side is nan
FLe(x, y) == x.kind # "nan" /\ y.kind # "nan" /\ ~FLt(y, x)

\* the main loop of optimize() is running, before and after the step
InMainLoop == pc \in {"loop", "offspring"} /\ pc' \in {"loop", "offspring"}

\* C29: in every algorithm's run the best cost so far never increases from
\* one iteration to the next (GA: the best fitness never decreases), and in
\* simulated annealing and tabu search best_cost <= current_cost holds after
\* every iteration.
C29_BestNeverWorse ==
    /\ [][InMainLoop =>
            /\ alg \in {"tabu", "sa", "aco"} => ~FLt(best_cost, best_cost')
            /\ alg = "pso" => ~FLt(global_best_cost, global_best_cost')
            /\ alg = "ga" => ~FitGt(best_fitness, best_fitness')]_vars
    /\ []((alg \in {"tabu", "sa"} /\ pc = "loop" /\ inner = 0 /\ iteration > 0) =>
            FLe(best_cost, current_cost))


-----------------------------------------------------------------------------
(* The two orientations of an edge *)

\* C30: after initialisation and after any number of iterations the pheromone
\* map of the ant colony has exactly the two orientations of every edge of
\* the graph as its keys, and the two orientations of an edge hold the same
\* level.
C30_PheromoneSymmetric ==
    alg = "aco" =>
        /\ DOMAIN pheromone =
              {pr \in graph.nodes \X graph.nodes : {pr[1], pr[2]} \in graph.edges}
        /\ \A pr \in DOMAIN pheromone :
              /\ <<pr[2], pr[1]>> \in DOMAIN pheromone
              /\ pheromone[<<pr[2], pr[1]>>] = pheromone[pr]

\* two iterations have updated the map, and ants have laid pheromone on some
\* edges and not on others
C30_Witness ==
    /\ alg = "aco" /\ iteration > 1
    /\ \E e \in DOMAIN pheromone : \E f \in DOMAIN pheromone :
          /\ pheromone[e].num * pheromone[f].den > pheromone[f].num * pheromone[e].den
          /\ pheromone[f].num * Scale * 4 = pheromone[f].den * Scale * Scale


=============================================================================
